---- MODULE Spec2Model ----
EXTENDS Integers, Sequences, FiniteSets, TLC

\* ======================================================================
\* Numbers.  JavaScript numbers are modelled as exact extended rationals
\* [n, d] in lowest terms with d >= 0:  d > 0 is the finite value n/d,
\* [1,0] is Infinity, [-1,0] is -Infinity and [0,0] is NaN.  The special
\* values propagate as in IEEE-754 arithmetic (x/0, Infinity*0, sqrt(<0)).
\* ======================================================================

Abs(a) == IF a < 0 THEN -a ELSE a

Sign(a) == IF a < 0 THEN -1 ELSE IF a > 0 THEN 1 ELSE 0

Max(a, b) == IF a > b THEN a ELSE b

Min(a, b) == IF a < b THEN a ELSE b

RECURSIVE GCD(_, _)
GCD(a, b) == IF b = 0 THEN a ELSE GCD(b, a % b)

Rat(n, d) ==
  IF d = 0 THEN [n |-> Sign(n), d |-> 0]
  ELSE LET g == GCD(Abs(n), Abs(d))
       IN  [n |-> Sign(d) * (n \div g), d |-> Abs(d) \div g]

RInt(i) == [n |-> i, d |-> 1]

NaN == [n |-> 0, d |-> 0]

IsNaN(a) == a.d = 0 /\ a.n = 0

IsFinite(a) == a.d # 0

RNeg(a) == [n |-> -a.n, d |-> a.d]

RAdd(a, b) ==
  IF a.d = 0 \/ b.d = 0
  THEN IF IsNaN(a) \/ IsNaN(b) THEN NaN
       ELSE IF a.d = 0 /\ b.d = 0 THEN (IF a.n = b.n THEN a ELSE NaN)
       ELSE IF a.d = 0 THEN a ELSE b
  ELSE LET g == GCD(a.d, b.d)
           l == (a.d \div g) * b.d
       IN  Rat(a.n * (l \div a.d) + b.n * (l \div b.d), l)

RSub(a, b) == RAdd(a, RNeg(b))

RMul(a, b) ==
  IF a.d = 0 \/ b.d = 0
  THEN [n |-> Sign(a.n) * Sign(b.n), d |-> 0]
  ELSE LET g1 == GCD(Abs(a.n), b.d)
           g2 == GCD(Abs(b.n), a.d)
       IN  [n |-> (a.n \div g1) * (b.n \div g2), d |-> (a.d \div g2) * (b.d \div g1)]

RDiv(a, b) ==
  IF b.d # 0 /\ b.n = 0
  THEN [n |-> Sign(a.n), d |-> 0]
  ELSE RMul(a, [n |-> Sign(b.n) * b.d, d |-> Abs(b.n)])

\* comparisons are false when an operand is NaN, as in JavaScript
RLess(a, b) == ~IsNaN(a) /\ ~IsNaN(b) /\ a # b /\ RSub(a, b).n < 0

RLeq(a, b) == ~IsNaN(a) /\ ~IsNaN(b) /\ (a = b \/ RSub(a, b).n < 0)

\* Speeds are kept squared so that Math.sqrt stays exact: SqrtSquared(x) is
\* Math.sqrt(x)^2, which is x for x >= 0 and NaN for x < 0 or x NaN.
SqrtSquared(x) == IF IsNaN(x) \/ x.n < 0 THEN NaN ELSE x

\* the sum of s[from] .. s[to], the range split in halves
RECURSIVE RSumRange(_, _, _)
RSumRange(s, from, to) ==
  IF from > to THEN RInt(0)
  ELSE IF from = to THEN s[from]
  ELSE RAdd(RSumRange(s, from, (from + to) \div 2), RSumRange(s, (from + to) \div 2 + 1, to))

RSum(s) == RSumRange(s, 1, Len(s))

\* ======================================================================
\* Bounds of the model
\* ======================================================================

\* largest population target explored per species (the code allows 1000)
MaxParticles == 2

\* number of operations explored in one behaviour
MaxOps == 3

\* number of heat/cool operations explored in one behaviour
MaxHeatCool == 1

\* number of particles that cross the lid's opening in one escapeParticles call
MaxEscapes == 1

\* ======================================================================
\* Program constants
\* ======================================================================

BOLTZMANN == 8316

HEAVY_PARTICLES_RADIUS == 125

\* 87.5 pm
LIGHT_PARTICLES_RADIUS == Rat(175, 2)

HeavyMass == 28

LightMass == 4

\* GasPropertiesConstants.HEAVY_PARTICLES_RANGE / LIGHT_PARTICLES_RANGE,
\* RangeWithValue( 0, 1000, 0 ), explored up to MaxParticles
ParticlesRangeMin == 0

ParticlesRangeDefault == 0

ParticlesRange == ParticlesRangeMin .. MaxParticles

\* PARTICLE_DISPERSION_ANGLE = PI / 2, in units of PI / 4
PARTICLE_DISPERSION_ANGLE == 2

\* BaseContainer
widthRangeMin == 5000

widthRangeMax == 15000

widthRangeDefault == 10000

height == 8750

depth == 4000

\* location of the container's bottom right corner (Vector2.ZERO)
location == [x |-> 0, y |-> 0]

\* constructor argument of ParticleSystem: where particles enter the container
particleEntryLocation == [x |-> location.x, y |-> location.y + 2000]

\* GasPropertiesConstants.INITIAL_TEMPERATURE_RANGE: RangeWithValue( 50, 500, 300 ), in K;
\* the low end of the range keeps the energies small
INITIAL_TEMPERATURE_MIN == 50

\* values returned by the getInitialTemperature callback handed to ParticleSystem
InitialTemperatures == {INITIAL_TEMPERATURE_MIN}

\* standard-normal draws z of Util.boxMullerTransform (value = z * sigma + mu)
ZDraws == {-6, 6}

\* draws of phet.joist.random.nextDouble(), in halves: 0.5
RandomDraws == {1}

VARIABLES
  heavyParticles,          \* heavy particles inside the container
  lightParticles,          \* light particles inside the container
  heavyParticlesOutside,   \* heavy particles outside the container
  lightParticlesOutside,   \* light particles outside the container
  numberOfHeavyParticles,  \* numberOfHeavyParticlesProperty.value
  numberOfLightParticles,  \* numberOfLightParticlesProperty.value
  collisionsEnabled,       \* collisionsEnabledProperty.value
  disposed,                \* ids of the particles on which dispose() was called
  nextId,                  \* identity of the next particle object to be constructed
  width,                   \* BaseContainer.widthProperty.value
  volume,                  \* BaseContainer.volumeProperty.value, in 10^6 pm^3
  bounds,                  \* BaseContainer.boundsProperty.value
  calls,                   \* invocations of the population listener made by the last operation
  failedAssertions,        \* messages of the assertions that have failed
  lastOp,                  \* the last operation and its arguments
  ops,                     \* number of operations performed
  heats,                   \* number of heat/cool operations performed
  isPlaying,               \* IdealModel.isPlayingProperty.value
  heatCoolFactorProperty,  \* IdealModel.heatCoolFactorProperty.value
  temperatureKelvin,       \* IdealModel.thermometer.temperatureKelvinProperty.value
  stopwatchTime,           \* time shown by IdealModel.stopwatch, in steps
  numberOfCollisions,      \* collisions counted by IdealModel.collisionCounter
  pressureProperty,             \* pressureProperty.value handed to PressureGauge, in kPa
  temperatureProperty,          \* temperatureProperty.value handed to PressureGauge, in K or Null
  holdConstantProperty,         \* holdConstantProperty.value handed to PressureGauge
  pressureNoiseProperty,        \* GasPropertiesGlobalOptions.pressureNoiseProperty.value
  pressureKilopascalsProperty,  \* PressureGauge.pressureKilopascalsProperty.value
  unitsProperty,                \* PressureGauge.unitsProperty.value
  dtAccumulator,                \* PressureGauge.dtAccumulator, in ps
  lastNoise,                    \* the noise that the last refresh of the gauge added, in kPa
  lastDt,                       \* the dt handed to the last PressureGauge.step, in ps
  particles1,              \* DiffusionCollisionDetector.particleArrays[ 0 ]
  particles2,              \* DiffusionCollisionDetector.particleArrays[ 1 ]
  hasDivider,              \* DiffusionContainer.hasDividerProperty.value
  numberOfParticleContainerCollisions,  \* value returned by the last updateParticleContainerCollisions
  averageSpeedModel,       \* fields of AverageSpeedModel
  leftData,                \* DiffusionData of the left side of the container
  rightData,               \* DiffusionData of the right side of the container
  gaussian,                \* arguments, raw draws and result of the last getGaussianValues call
  flowRate,                \* fields of ParticleFlowRate, and the particles its last step monitored
  histogramsModel,         \* fields of HistogramsModel
  screenView,              \* state of the resize handle's listener in GasPropertiesScreenView
  lid,                     \* lid width of the container and state of LidDragListener
  redistribute,            \* GasPropertiesQueryParameters.redistribute, fixed when the sim starts
  modelBounds,             \* IdealModel.modelBoundsProperty.value
  idealModelThrown         \* what the constructor of IdealModel threw

psVars == <<heavyParticles, lightParticles, heavyParticlesOutside, lightParticlesOutside,
            numberOfHeavyParticles, numberOfLightParticles, collisionsEnabled, disposed,
            nextId, width, volume, bounds, calls, failedAssertions, lastOp, ops, heats>>

idealVars == <<isPlaying, heatCoolFactorProperty, temperatureKelvin, stopwatchTime, numberOfCollisions>>

gaugeVars == <<pressureProperty, temperatureProperty, holdConstantProperty,
               pressureNoiseProperty, pressureKilopascalsProperty, unitsProperty,
               dtAccumulator, lastNoise, lastDt>>

diffusionVars == <<particles1, particles2, hasDivider, numberOfParticleContainerCollisions>>

averageSpeedVars == <<averageSpeedModel, histogramsModel>>

viewVars == <<screenView, lid>>
dataVars == <<leftData, rightData, gaussian, flowRate, viewVars, redistribute, modelBounds, idealModelThrown>>

vars == <<psVars, idealVars, gaugeVars, diffusionVars, averageSpeedVars, dataVars>>

\* ======================================================================
\* Particle (common/model/Particle.js is not among the sources; modelled from
\* its uses and from section 4.1 of the specification).  The velocity is
\* kept in polar form: speed2 is |velocity|^2, angle its direction in units
\* of PI / 4.
\* ======================================================================

speciesMass(species) == IF species = "heavy" THEN HeavyMass ELSE LightMass

speciesRadius(species) ==
  IF species = "heavy" THEN RInt(HEAVY_PARTICLES_RADIUS) ELSE LIGHT_PARTICLES_RADIUS

\* new HeavyParticle() / new LightParticle(): at the origin, at rest
createParticle(species, id) ==
  [id |-> id, species |-> species, mass |-> speciesMass(species),
   radius |-> speciesRadius(species),
   x |-> RInt(0), y |-> RInt(0), speed2 |-> RInt(0), angle |-> 0]

setLocationXY(p, x, y) == [p EXCEPT !.x = x, !.y = y]

setVelocityPolar(p, magnitude2, angle) == [p EXCEPT !.speed2 = magnitude2, !.angle = angle]

setVelocityMagnitude(p, magnitude2) == [p EXCEPT !.speed2 = magnitude2]

\* scaleVelocity( s ): |v|^2 is multiplied by s^2
scaleVelocity(p, scale) == [p EXCEPT !.speed2 = RMul(RMul(scale, scale), @)]

\* KE = (1/2) * m * |v|^2
getKineticEnergy(p) == RMul(Rat(p.mass, 2), p.speed2)

ids(particles) == {particles[i].id : i \in 1 .. Len(particles)}

\* ======================================================================
\* GasPropertiesUtils.getGaussianValues
\* ======================================================================

\* Util.boxMullerTransform( mu, sigma, random ) with standard-normal draw z
boxMullerTransform(mu, sigma, z) == RAdd(RMul(RInt(z), sigma), mu)

\* the draws of boxMullerTransform as they come, without the adjustment
rawGaussianValues(n, mean, deviation, zs) ==
  [i \in 1 .. n |-> boxMullerTransform(mean, deviation, zs[i])]

getGaussianValues(n, mean, deviation, zs) ==
  LET values == [i \in 1 .. n |-> boxMullerTransform(mean, deviation, zs[i])]
      sum == RSum(values)
      emergentMean == RDiv(sum, RInt(n))
      deltaMean == RSub(mean, emergentMean)
  IN  [i \in 1 .. n |-> RAdd(values[i], deltaMean)]

\* the mean that the closing assertion of getGaussianValues compares with `mean`
actualMean(values) == RDiv(RSum(values), RInt(Len(values)))

\* standard-normal draws handed to getGaussianValues on its own
GaussianZs == {-6, -1, 0, 6}

\* values of the argument mean
GaussianMeans == {50, 300}

\* the argument threshold of the call in ParticleSystem.addParticles: 1E-3
GaussianThreshold == Rat(1, 1000)

\* ======================================================================
\* ParticleSystem: population
\* ======================================================================

\* temperatures spread for every group of particles, collisions or not
temperaturesSpreadForGroups(n, initialTemperature, collisions, zs) ==
  IF n # 1
  THEN getGaussianValues(n, RInt(initialTemperature), RMul(Rat(2, 10), RInt(initialTemperature)), zs)
  ELSE [i \in 1 .. n |-> RInt(initialTemperature)]

\* the temperatures addParticles uses for its n particles
temperaturesFor(n, initialTemperature, collisions, zs) ==
  IF n # 1 /\ collisions
  THEN getGaussianValues(n, RInt(initialTemperature), RMul(Rat(2, 10), RInt(initialTemperature)), zs)
  ELSE [i \in 1 .. n |-> RInt(initialTemperature)]

\* the angle handed to setVelocityPolar, in units of PI / 4, for draw r / 2
entryAngle(r) == 4 - PARTICLE_DISPERSION_ANGLE \div 2 + (r * PARTICLE_DISPERSION_ANGLE) \div 2

\* a particle placed on the entry point itself, its radius forgotten
newParticleAtWall(species, id, temperature, r) ==
  LET particle == createParticle(species, id)
      located == setLocationXY(particle, RInt(particleEntryLocation.x), RInt(particleEntryLocation.y))
  IN  setVelocityPolar(located,
                       SqrtSquared(RDiv(RMul(RInt(3 * BOLTZMANN), temperature), RInt(particle.mass))),
                       entryAngle(r))

\* one particle as addParticles creates it
newParticle(species, id, temperature, r) ==
  LET particle == createParticle(species, id)
      located == setLocationXY(particle,
                               RSub(RInt(particleEntryLocation.x), particle.radius),
                               RInt(particleEntryLocation.y))
  IN  setVelocityPolar(located,
                       SqrtSquared(RDiv(RMul(RInt(3 * BOLTZMANN), temperature), RInt(particle.mass))),
                       entryAngle(r))

\* addParticles creating one particle too few
addParticlesOneShort(n, particles, species, firstId, collisions, draws) ==
  LET temperatures == temperaturesFor(n, draws.T, collisions, draws.zs)
  IN  particles \o [i \in 1 .. n - 1 |-> newParticle(species, firstId + i - 1, temperatures[i], draws.rs[i])]

\* draws: [T |-> value of getInitialTemperature(), zs, rs |-> random draws per particle]
addParticles(n, particles, species, firstId, collisions, draws) ==
  LET temperatures == temperaturesFor(n, draws.T, collisions, draws.zs)
  IN  particles \o [i \in 1 .. n |-> newParticle(species, firstId + i - 1, temperatures[i], draws.rs[i])]

\* Array.prototype.slice( start, end ) on a 1-based sequence
slice(s, start, end) ==
  LET len == Len(s)
      from == IF start < 0 THEN Max(len + start, 0) ELSE Min(start, len)
      to == IF end < 0 THEN Max(len + end, 0) ELSE Min(end, len)
  IN  IF from >= to THEN <<>> ELSE SubSeq(s, from + 1, to)

\* Array.prototype.indexOf by object identity; 0 when absent
indexOf(particles, particle) ==
  IF \E i \in 1 .. Len(particles) : particles[i].id = particle.id
  THEN CHOOSE i \in 1 .. Len(particles) :
         /\ particles[i].id = particle.id
         /\ \A j \in 1 .. i - 1 : particles[j].id # particle.id
  ELSE 0

\* Array.prototype.splice( index, 1 ) at the 1-based index
splice1(s, index) == SubSeq(s, 1, index - 1) \o SubSeq(s, index + 1, Len(s))

\* removeParticle( particle, particles ): [particles, disposed, failed].  The
\* assertion `index !== -1` is recorded in failed; what follows it is what a
\* build without assertions does
removeParticle(particle, particles) ==
  LET index == indexOf(particles, particle)
  IN  [particles |-> IF index = 0
                     THEN SubSeq(particles, 1, Len(particles) - 1)  \* splice( -1, 1 )
                     ELSE splice1(particles, index),
       disposed |-> {particle.id},
       failed |-> IF index = 0 THEN {"particle not found"} ELSE {}]

RECURSIVE removeEach(_, _)
removeEach(particlesToRemove, particles) ==
  IF particlesToRemove = <<>>
  THEN [particles |-> particles, disposed |-> {}, failed |-> {}]
  ELSE LET first == removeParticle(Head(particlesToRemove), particles)
           rest == removeEach(Tail(particlesToRemove), first.particles)
       IN  [particles |-> rest.particles, disposed |-> first.disposed \cup rest.disposed,
            failed |-> first.failed \cup rest.failed]

\* removal of the first n particles instead of the last n
removeOldestParticles(n, particles) ==
  removeEach(slice(particles, 0, n), particles)

\* the result of a removal with more failed assertions
withFailed(r, failed) == [r EXCEPT !.failed = @ \cup failed]

\* the assertion of removeParticles: `n <= particles.length`
removeParticlesAssertion(n, particles) ==
  IF n <= Len(particles) THEN {}
  ELSE {"attempted to remove " \o ToString(n) \o " particles, but we only have "
          \o ToString(Len(particles)) \o " particles"}

\* removeParticles( n, particles ): removes the last n particles
removeParticles(n, particles) ==
  withFailed(removeEach(slice(particles, Len(particles) - n, Len(particles)), particles),
             removeParticlesAssertion(n, particles))

\* what the population listener leaves behind: the array after the change,
\* the particles it disposed of, the number it created and its closing assertion
updateResult(newValue, delta, after, removedIds) ==
  [particles |-> after,
   disposed |-> removedIds,
   created |-> IF delta > 0 THEN delta ELSE 0,
   failed |-> IF Len(after) = newValue THEN {} ELSE {"particles array is out of sync"}]

\* the branches on delta of the listener's body
updateParticles(newValue, delta, particles, species, firstId, collisions, draws) ==
  withFailed(
    updateResult(newValue, delta,
                 IF delta > 0
                 THEN addParticles(delta, particles, species, firstId, collisions, draws)
                 ELSE IF delta < 0 THEN removeParticles(-delta, particles).particles ELSE particles,
                 IF delta < 0 THEN removeParticles(-delta, particles).disposed ELSE {}),
    IF delta < 0 THEN removeParticles(-delta, particles).failed ELSE {})

\* reconciliation without the comparison of the array's length with newValue
updateNumberOfParticlesUnguarded(newValue, oldValue, particles, species, firstId, collisions, draws) ==
  updateParticles(newValue, newValue - oldValue, particles, species, firstId, collisions, draws)

\* updateNumberOfParticles( newValue, oldValue, particles, createParticle ):
\* [particles, disposed, created, failed]
updateNumberOfParticles(newValue, oldValue, particles, species, firstId, collisions, draws) ==
  IF Len(particles) # newValue
  THEN updateParticles(newValue, newValue - oldValue, particles, species, firstId, collisions, draws)
  ELSE [particles |-> particles, disposed |-> {}, created |-> 0, failed |-> {}]

\* the record kept in `calls` for one invocation of the population listener
callRecord(species, newValue, oldValue, particles, result) ==
  [species |-> species, newValue |-> newValue, oldValue |-> oldValue,
   before |-> particles, after |-> result.particles, disposed |-> result.disposed]

\* draws for a listener invocation that cannot add particles
noDraws == [T |-> INITIAL_TEMPERATURE_MIN, zs |-> <<>>, rs |-> <<>>]

DrawsFor(n) ==
  [T : InitialTemperatures, zs : [1 .. n -> ZDraws], rs : [1 .. n -> RandomDraws]]

\* ======================================================================
\* BaseContainer
\* ======================================================================

\* volumeProperty: width * height * depth, in pm^3.  The value exceeds the
\* 32-bit integers of the model checker, so it is kept in units of 10^6 pm^3
\* (height * depth is a multiple of 10^6).
volumeOf(w) == w * ((height * depth) \div (1000 * 1000))

\* bounds that grow to the right of the container's location
boundsRightOf(w) ==
  [minX |-> location.x, minY |-> location.y,
   maxX |-> location.x + w, maxY |-> location.y + height]

\* boundsProperty
boundsOf(w) ==
  [minX |-> location.x - w, minY |-> location.y,
   maxX |-> location.x, maxY |-> location.y + height]

\* widths assigned to the container: the least width of its range, and a
\* width outside the range on either side
Widths == {widthRangeMin - 1000, widthRangeMin, widthRangeMax + 1000}

\* ======================================================================
\* ParticleSystem: temperature, heat/cool, redistribution
\* ======================================================================

\* GasPropertiesQueryParameters.heatCool (not among the sources)
heatCoolDivisor == 4

mapParticles(particles, F(_)) == [i \in 1 .. Len(particles) |-> F(particles[i])]

\* heat/cool that reaches the first particle of the array only
heatCoolFirstParticle(particles, heatCoolFactor) ==
  [i \in 1 .. Len(particles) |->
     IF i = 1
     THEN scaleVelocity(particles[i], RAdd(RInt(1), Rat(heatCoolFactor, heatCoolDivisor)))
     ELSE particles[i]]

\* heatCoolParticles( particles, heatCoolFactor )
heatCoolParticles(particles, heatCoolFactor) ==
  LET velocityScale == RAdd(RInt(1), Rat(heatCoolFactor, heatCoolDivisor))
      F(p) == scaleVelocity(p, velocityScale)
  IN  mapParticles(particles, F)

\* a redistribution that scales both coordinates of the location
redistributeBothDimensions(particles, ratio) ==
  [i \in 1 .. Len(particles) |->
     [particles[i] EXCEPT !.x = RMul(ratio, @), !.y = RMul(ratio, @)]]

\* redistributeParticles( particles, ratio )
redistributeParticles(particles, ratio) ==
  LET F(p) == [p EXCEPT !.x = RMul(ratio, @)]
  IN  mapParticles(particles, F)

\* the digits after the decimal point of remainder / d, at most k of them
RECURSIVE fractionDigits(_, _, _)
fractionDigits(remainder, d, k) ==
  IF remainder = 0 \/ k = 0 THEN ""
  ELSE ToString((10 * remainder) \div d) \o fractionDigits((10 * remainder) % d, d, k - 1)

\* String( number ), the text with which a template literal or a string
\* concatenation renders a number in the message of an assertion: "NaN",
\* "Infinity", "-Infinity", an integer without a decimal point, and otherwise
\* the decimal expansion, which is exact when it ends within 16 digits
numberString(r) ==
  IF r.d = 0 THEN (IF r.n = 0 THEN "NaN" ELSE IF r.n > 0 THEN "Infinity" ELSE "-Infinity")
  ELSE IF r.d = 1 THEN ToString(r.n)
  ELSE LET magnitude == IF r.n < 0 THEN -r.n ELSE r.n
       IN  (IF r.n < 0 THEN "-" ELSE "") \o ToString(magnitude \div r.d) \o "."
             \o fractionDigits(magnitude % r.d, r.d, 16)

\* the assertion of redistributeParticles( particles, ratio ): `ratio > 0`
redistributeAssertion(ratio) ==
  IF RLess(RInt(0), ratio) THEN {} ELSE {"invalid ration: " \o numberString(ratio)}

\* the assertion of ParticleSystem.redistributeParticles( scaleX ): `scaleX > 0`
scaleXAssertion(scaleX) ==
  IF RLess(RInt(0), scaleX) THEN {} ELSE {"invalid scaleX: " \o numberString(scaleX)}

kineticEnergies(particles) == [i \in 1 .. Len(particles) |-> getKineticEnergy(particles[i])]

\* ParticleUtils.getTotalKineticEnergy of one array
totalKineticEnergyOf(particles) == RSum(kineticEnergies(particles))

\* ParticleSystem.getTotalKineticEnergy
getTotalKineticEnergy(heavy, light) ==
  RAdd(totalKineticEnergyOf(heavy), totalKineticEnergyOf(light))

\* ParticleSystem.getAverageKineticEnergy
getAverageKineticEnergy(heavy, light) ==
  RDiv(getTotalKineticEnergy(heavy, light), RInt(Len(heavy) + Len(light)))

\* the ratio by which setTemperature multiplies every kinetic energy
temperatureRatio(temperature, heavy, light) ==
  LET desiredAverageKE == RMul(RMul(Rat(3, 2), RInt(temperature)), RInt(BOLTZMANN))
      actualAverageKE == getAverageKineticEnergy(heavy, light)
  IN  RDiv(desiredAverageKE, actualAverageKE)

\* the loop body with |v| = sqrt( KE / m ), the factor 2 forgotten
setTemperatureOfHalved(particles, ratio) ==
  LET F(p) ==
        LET actualParticleKE == getKineticEnergy(p)
            desiredParticleKE == RMul(ratio, actualParticleKE)
            desiredSpeed2 == SqrtSquared(RMul(Rat(1, p.mass), desiredParticleKE))
        IN  setVelocityMagnitude(p, desiredSpeed2)
  IN  mapParticles(particles, F)

\* the body of setTemperature's loop for one array
setTemperatureOf(particles, ratio) ==
  LET F(p) ==
        LET actualParticleKE == getKineticEnergy(p)
            desiredParticleKE == RMul(ratio, actualParticleKE)
            desiredSpeed2 == SqrtSquared(RMul(Rat(2, p.mass), desiredParticleKE))
        IN  setVelocityMagnitude(p, desiredSpeed2)
  IN  mapParticles(particles, F)

\* temperatures handed to setTemperature, in K
Temperatures == {0, 2 * INITIAL_TEMPERATURE_MIN}

\* heatCoolFactor values, within [-1, 1]
HeatCoolFactors == {-1, 0, 1}

\* one notification of the population listener with result r, and its record
notified(species, newValue, oldValue, particles, r) ==
  [particles |-> r.particles, disposed |-> r.disposed, failed |-> r.failed,
   calls |-> << callRecord(species, newValue, oldValue, particles, r) >>]

\* a reset of the Property that does not reach the particle array
resetNumberOnly(number, particles, species, firstId, collisions) ==
  [particles |-> particles, disposed |-> {}, failed |-> {}, calls |-> <<>>]

\* property.reset(): the population listener runs only when the value changes
resetNumberOfParticles(number, particles, species, firstId, collisions) ==
  IF number # ParticlesRangeDefault
  THEN notified(species, ParticlesRangeDefault, number, particles,
                updateNumberOfParticles(ParticlesRangeDefault, number, particles, species,
                                        firstId, collisions, noDraws))
  ELSE [particles |-> particles, disposed |-> {}, failed |-> {}, calls |-> <<>>]

\* ParticleUtils.removeAllParticles( particles )
removeAllParticles(particles) == removeParticles(Len(particles), particles)

\* the assertions of ParticleSystem.reset
resetAssertions(heavy, light, heavyOutside, lightOutside) ==
  (IF Len(heavy) = 0 THEN {} ELSE {"there should be no heavyParticles"})
  \cup (IF Len(light) = 0 THEN {} ELSE {"there should be no lightParticles"})
  \cup (IF Len(heavyOutside) = 0 THEN {} ELSE {"there should be no heavyParticlesOutside"})
  \cup (IF Len(lightOutside) = 0 THEN {} ELSE {"there should be no lightParticlesOutside"})

\* ParticleUtils.escapeParticles( container, numberOfParticlesProperty, insideParticles,
\* outsideParticles ): walks the inside array from its end; a particle that has
\* crossed the lid's opening (its id is in `crossed`) is spliced out of the inside
\* array, the population target is decremented (which notifies the population
\* listener) and the particle is pushed on the outside array.
\* the loop's state after `particle` has escaped: n is the notification of
\* the population listener for the decremented target
escaped(st, particle, n) ==
  [inside |-> n.particles,
   outside |-> Append(st.outside, particle),
   number |-> st.number - 1,
   disposed |-> st.disposed \cup n.disposed,
   failed |-> st.failed \cup n.failed,
   calls |-> st.calls \o n.calls]

\* insideParticles.splice( i, 1 ) followed by numberOfParticlesProperty.value--
decrement(number, spliced, species, firstId, collisions) ==
  notified(species, number - 1, number, spliced,
           updateNumberOfParticles(number - 1, number, spliced, species,
                                   firstId, collisions, noDraws))

RECURSIVE escapeFrom(_, _, _, _, _, _)
escapeFrom(i, st, species, crossed, firstId, collisions) ==
  IF i = 0 THEN st
  ELSE IF st.inside[i].id \in crossed
       THEN escapeFrom(i - 1,
                       escaped(st, st.inside[i],
                               decrement(st.number, splice1(st.inside, i), species,
                                         firstId, collisions)),
                       species, crossed, firstId, collisions)
       ELSE escapeFrom(i - 1, st, species, crossed, firstId, collisions)

escapeParticlesOf(species, number, inside, outside, crossed, firstId, collisions) ==
  escapeFrom(Len(inside),
             [inside |-> inside, outside |-> outside, number |-> number,
              disposed |-> {}, failed |-> {}, calls |-> <<>>],
             species, crossed, firstId, collisions)

\* ======================================================================
\* Specification Spec: ParticleSystem with its BaseContainer
\* ======================================================================

op(name, species, arg) == [op |-> name, species |-> species, arg |-> arg]

\* state after construction; link() has invoked both population listeners
\* with ( 0, null ), and null is 0 in `newValue - oldValue`
InitParticleSystem ==
  /\ heavyParticles = <<>>
  /\ lightParticles = <<>>
  /\ heavyParticlesOutside = <<>>
  /\ lightParticlesOutside = <<>>
  /\ numberOfHeavyParticles = ParticlesRangeDefault
  /\ numberOfLightParticles = ParticlesRangeDefault
  /\ collisionsEnabled = TRUE
  /\ disposed = {}
  /\ nextId = 1
  /\ width = widthRangeDefault
  /\ volume = volumeOf(widthRangeDefault)
  /\ bounds = boundsOf(widthRangeDefault)
  /\ calls = << callRecord("heavy", 0, 0, <<>>, updateNumberOfParticles(0, 0, <<>>, "heavy", 1, TRUE, noDraws)),
                callRecord("light", 0, 0, <<>>, updateNumberOfParticles(0, 0, <<>>, "light", 1, TRUE, noDraws)) >>
  /\ failedAssertions = {}
  /\ lastOp = op("construct", "", 0)
  /\ ops = 0
  /\ heats = 0

\* the effect of the heavy population listener whose result is r
numberOfHeavyParticlesListener(v, r) ==
  /\ heavyParticles' = r.particles
  /\ numberOfHeavyParticles' = v
  /\ disposed' = disposed \cup r.disposed
  /\ nextId' = nextId + r.created
  /\ calls' = << callRecord("heavy", v, numberOfHeavyParticles, heavyParticles, r) >>
  /\ failedAssertions' = failedAssertions \cup r.failed
  /\ lastOp' = op("setNumberOfParticles", "heavy", v - numberOfHeavyParticles)

\* numberOfHeavyParticlesProperty.value = v, and the listener it notifies
SetNumberOfHeavyParticles ==
  \E v \in ParticlesRange :
    /\ ops < MaxOps
    /\ v # numberOfHeavyParticles
    /\ \E draws \in DrawsFor(Max(v - numberOfHeavyParticles, 0)) :
         numberOfHeavyParticlesListener(
           v, updateNumberOfParticles(v, numberOfHeavyParticles, heavyParticles, "heavy",
                                      nextId, collisionsEnabled, draws))
    /\ ops' = ops + 1
    /\ UNCHANGED <<lightParticles, heavyParticlesOutside, lightParticlesOutside,
                   numberOfLightParticles, collisionsEnabled, width, volume, bounds, heats>>
    /\ UNCHANGED <<idealVars, gaugeVars, diffusionVars, averageSpeedVars, dataVars>>

\* the effect of the light population listener whose result is r
numberOfLightParticlesListener(v, r) ==
  /\ lightParticles' = r.particles
  /\ numberOfLightParticles' = v
  /\ disposed' = disposed \cup r.disposed
  /\ nextId' = nextId + r.created
  /\ calls' = << callRecord("light", v, numberOfLightParticles, lightParticles, r) >>
  /\ failedAssertions' = failedAssertions \cup r.failed
  /\ lastOp' = op("setNumberOfParticles", "light", v - numberOfLightParticles)

\* numberOfLightParticlesProperty.value = v, and the listener it notifies
SetNumberOfLightParticles ==
  \E v \in ParticlesRange :
    /\ ops < MaxOps
    /\ v # numberOfLightParticles
    /\ \E draws \in DrawsFor(Max(v - numberOfLightParticles, 0)) :
         numberOfLightParticlesListener(
           v, updateNumberOfParticles(v, numberOfLightParticles, lightParticles, "light",
                                      nextId, collisionsEnabled, draws))
    /\ ops' = ops + 1
    /\ UNCHANGED <<heavyParticles, heavyParticlesOutside, lightParticlesOutside,
                   numberOfHeavyParticles, collisionsEnabled, width, volume, bounds, heats>>
    /\ UNCHANGED <<idealVars, gaugeVars, diffusionVars, averageSpeedVars, dataVars>>

\* collisionsEnabledProperty.value = b
SetCollisionsEnabled ==
  /\ ops < MaxOps
  /\ collisionsEnabled' = ~collisionsEnabled
  /\ calls' = <<>>
  /\ lastOp' = op("setCollisionsEnabled", "", 0)
  /\ ops' = ops + 1
  /\ UNCHANGED <<heavyParticles, lightParticles, heavyParticlesOutside, lightParticlesOutside,
                 numberOfHeavyParticles, numberOfLightParticles, disposed, nextId,
                 width, volume, bounds, failedAssertions, heats>>
  /\ UNCHANGED <<idealVars, gaugeVars, diffusionVars, averageSpeedVars, dataVars>>

\* ParticleSystem.heatCool( heatCoolFactor )
HeatCool ==
  \E heatCoolFactor \in HeatCoolFactors :
    /\ ops < MaxOps
    /\ heats < MaxHeatCool
    /\ IF heatCoolFactor # 0
       THEN /\ heavyParticles' = heatCoolParticles(heavyParticles, heatCoolFactor)
            /\ lightParticles' = heatCoolParticles(lightParticles, heatCoolFactor)
       ELSE UNCHANGED <<heavyParticles, lightParticles>>
    /\ calls' = <<>>
    /\ lastOp' = op("heatCool", "", heatCoolFactor)
    /\ ops' = ops + 1
    /\ heats' = heats + 1
    /\ UNCHANGED <<heavyParticlesOutside, lightParticlesOutside, numberOfHeavyParticles,
                   numberOfLightParticles, collisionsEnabled, disposed, nextId,
                   width, volume, bounds, failedAssertions>>
    /\ UNCHANGED <<idealVars, gaugeVars, diffusionVars, averageSpeedVars, dataVars>>

\* ParticleSystem.setTemperature( temperature )
SetTemperature ==
  \E temperature \in Temperatures :
    /\ ops < MaxOps
    /\ LET ratio == temperatureRatio(temperature, heavyParticles, lightParticles)
       IN  /\ heavyParticles' = setTemperatureOf(heavyParticles, ratio)
           /\ lightParticles' = setTemperatureOf(lightParticles, ratio)
    /\ calls' = <<>>
    /\ lastOp' = op("setTemperature", "", temperature)
    /\ ops' = ops + 1
    /\ UNCHANGED <<heavyParticlesOutside, lightParticlesOutside, numberOfHeavyParticles,
                   numberOfLightParticles, collisionsEnabled, disposed, nextId,
                   width, volume, bounds, failedAssertions, heats>>
    /\ UNCHANGED <<idealVars, gaugeVars, diffusionVars, averageSpeedVars, dataVars>>

\* values of the query parameter GasPropertiesQueryParameters.redistribute
RedistributeStrategies == {"drag", "end"}

\* a change of widthProperty: the derived volume and bounds follow the
\* width; the listener that calls redistributeParticles( newWidth / oldWidth )
\* on both inside arrays is installed only
\* `if ( GasPropertiesQueryParameters.redistribute === 'drag' )`
WidthChanged(newWidth, oldWidth) ==
  /\ width' = newWidth
  /\ volume' = volumeOf(newWidth)
  /\ bounds' = boundsOf(newWidth)
  /\ IF redistribute = "drag"
     THEN /\ heavyParticles' = redistributeParticles(heavyParticles, Rat(newWidth, oldWidth))
          /\ lightParticles' = redistributeParticles(lightParticles, Rat(newWidth, oldWidth))
     ELSE UNCHANGED <<heavyParticles, lightParticles>>

\* container.widthProperty.value = w.  BaseContainer hands widthRange to the
\* NumberProperty and neither clamps nor refuses a value itself: a width
\* outside the range is assigned like any other, the derived volume and
\* bounds follow it and the listener of the width is notified
SetWidth ==
  \E w \in Widths :
    /\ ops < MaxOps
    /\ w # width
    /\ WidthChanged(w, width)
    /\ lastOp' = op("setWidth", "", w)
    /\ calls' = <<>>
    /\ ops' = ops + 1
    /\ UNCHANGED <<heavyParticlesOutside, lightParticlesOutside, numberOfHeavyParticles,
                   numberOfLightParticles, collisionsEnabled, disposed, nextId,
                   failedAssertions, heats>>
    /\ UNCHANGED <<idealVars, gaugeVars, diffusionVars, averageSpeedVars, dataVars>>

\* BaseContainer.reset()
ResetContainer ==
  /\ ops < MaxOps
  /\ IF width # widthRangeDefault
     THEN WidthChanged(widthRangeDefault, width)
     ELSE UNCHANGED <<width, volume, bounds, heavyParticles, lightParticles>>
  /\ calls' = <<>>
  /\ lastOp' = op("resetContainer", "", 0)
  /\ ops' = ops + 1
  /\ UNCHANGED <<heavyParticlesOutside, lightParticlesOutside, numberOfHeavyParticles,
                 numberOfLightParticles, collisionsEnabled, disposed, nextId,
                 failedAssertions, heats>>
  /\ UNCHANGED <<idealVars, gaugeVars, diffusionVars, averageSpeedVars, dataVars>>

\* the state ParticleSystem.reset() leaves: h and l are the notifications of
\* the two population listeners, ho and lo the emptied outside arrays
resetTo(h, l, ho, lo) ==
  /\ numberOfHeavyParticles' = ParticlesRangeDefault
  /\ numberOfLightParticles' = ParticlesRangeDefault
  /\ heavyParticles' = h.particles
  /\ lightParticles' = l.particles
  /\ heavyParticlesOutside' = ho.particles
  /\ lightParticlesOutside' = lo.particles
  /\ disposed' = disposed \cup h.disposed \cup l.disposed \cup ho.disposed \cup lo.disposed
  /\ calls' = h.calls \o l.calls
  /\ failedAssertions' = failedAssertions \cup h.failed \cup l.failed
                           \cup resetAssertions(h.particles, l.particles,
                                                ho.particles, lo.particles)

\* ParticleSystem.reset()
ResetParticleSystem ==
  /\ ops < MaxOps
  /\ resetTo(resetNumberOfParticles(numberOfHeavyParticles, heavyParticles, "heavy",
                                     nextId, collisionsEnabled),
             resetNumberOfParticles(numberOfLightParticles, lightParticles, "light",
                                     nextId, collisionsEnabled),
             removeAllParticles(heavyParticlesOutside),
             removeAllParticles(lightParticlesOutside))
  /\ lastOp' = op("reset", "", Len(heavyParticlesOutside) + Len(lightParticlesOutside))
  /\ ops' = ops + 1
  /\ UNCHANGED <<collisionsEnabled, nextId, width, volume, bounds, heats>>
  /\ UNCHANGED <<idealVars, gaugeVars, diffusionVars, averageSpeedVars, dataVars>>

\* the state the two ParticleUtils.escapeParticles calls leave
escapedTo(h, l) ==
  /\ heavyParticles' = h.inside
  /\ heavyParticlesOutside' = h.outside
  /\ numberOfHeavyParticles' = h.number
  /\ lightParticles' = l.inside
  /\ lightParticlesOutside' = l.outside
  /\ numberOfLightParticles' = l.number
  /\ disposed' = disposed \cup h.disposed \cup l.disposed
  /\ failedAssertions' = failedAssertions \cup h.failed \cup l.failed
  /\ calls' = h.calls \o l.calls

\* ParticleSystem.escapeParticles( container ): lidOpen is container.isLidOpen(),
\* crossed the particles that are above the container within the lid's opening
EscapeParticles ==
  \E lidOpen \in BOOLEAN, crossed \in SUBSET (ids(heavyParticles) \cup ids(lightParticles)) :
    /\ ops < MaxOps
    /\ Cardinality(crossed) <= MaxEscapes
    /\ lidOpen \/ crossed = {}
    /\ IF lidOpen
       THEN escapedTo(escapeParticlesOf("heavy", numberOfHeavyParticles, heavyParticles,
                                        heavyParticlesOutside, crossed, nextId, collisionsEnabled),
                      escapeParticlesOf("light", numberOfLightParticles, lightParticles,
                                        lightParticlesOutside, crossed, nextId, collisionsEnabled))
       ELSE /\ UNCHANGED <<heavyParticles, heavyParticlesOutside, numberOfHeavyParticles,
                           lightParticles, lightParticlesOutside, numberOfLightParticles,
                           disposed, failedAssertions>>
            /\ calls' = <<>>
    /\ lastOp' = op("escapeParticles", "", Cardinality(crossed))
    /\ ops' = ops + 1
    /\ UNCHANGED <<collisionsEnabled, nextId, width, volume, bounds, heats>>
    /\ UNCHANGED <<idealVars, gaugeVars, diffusionVars, averageSpeedVars, dataVars>>

\* ======================================================================
\* Motion and wall collisions.  Particle.step and
\* CollisionDetector.doParticleContainerCollisions are not among the
\* sources; they are modelled from sections 4.1 and 4.3 of the
\* specification.  A moving particle advances by the distance `distance`
\* along each axis of its direction; a particle that reaches a wall is put
\* back against that wall and the velocity component normal to it is
\* reflected.  The walls are at rest in every call that is modelled.
\* ======================================================================

\* the distance a moving particle covers in one step, in pm
StepDistance == 5000

\* direction of the angle, given in units of PI / 4
directionX(angle) == IF angle \in {0, 1, 7} THEN 1 ELSE IF angle \in {3, 4, 5} THEN -1 ELSE 0

directionY(angle) == IF angle \in {1, 2, 3} THEN 1 ELSE IF angle \in {5, 6, 7} THEN -1 ELSE 0

isMoving(p) == IsFinite(p.speed2) /\ p.speed2.n > 0

\* Particle.step( dt )
stepParticle(p) ==
  IF isMoving(p)
  THEN [p EXCEPT !.x = RAdd(@, RInt(directionX(p.angle) * StepDistance)),
                 !.y = RAdd(@, RInt(directionY(p.angle) * StepDistance))]
  ELSE p

\* stepParticles( particles, dt )
stepParticles(particles) == mapParticles(particles, stepParticle)

particleLeft(p) == RSub(p.x, p.radius)

particleRight(p) == RAdd(p.x, p.radius)

particleBottom(p) == RSub(p.y, p.radius)

particleTop(p) == RAdd(p.y, p.radius)

\* one particle against the walls of containerBounds: [particle, collided]
collideWithContainer(p, containerBounds) ==
  LET hitsLeft == RLeq(particleLeft(p), RInt(containerBounds.minX))
      hitsRight == ~hitsLeft /\ RLeq(RInt(containerBounds.maxX), particleRight(p))
      hitsTop == RLeq(RInt(containerBounds.maxY), particleTop(p))
      hitsBottom == ~hitsTop /\ RLeq(particleBottom(p), RInt(containerBounds.minY))
      px == IF hitsLeft THEN RAdd(RInt(containerBounds.minX), p.radius)
            ELSE IF hitsRight THEN RSub(RInt(containerBounds.maxX), p.radius)
            ELSE p.x
      py == IF hitsTop THEN RSub(RInt(containerBounds.maxY), p.radius)
            ELSE IF hitsBottom THEN RAdd(RInt(containerBounds.minY), p.radius)
            ELSE p.y
      ax == IF hitsLeft \/ hitsRight THEN (12 - p.angle) % 8 ELSE p.angle
      ay == IF hitsTop \/ hitsBottom THEN (8 - ax) % 8 ELSE ax
  IN  [particle |-> [p EXCEPT !.x = px, !.y = py, !.angle = ay],
       collided |-> hitsLeft \/ hitsRight \/ hitsTop \/ hitsBottom]

RECURSIVE countCollided(_, _)
countCollided(particles, containerBounds) ==
  IF particles = <<>> THEN 0
  ELSE (IF collideWithContainer(Head(particles), containerBounds).collided THEN 1 ELSE 0)
       + countCollided(Tail(particles), containerBounds)

\* CollisionDetector.doParticleContainerCollisions( particles, containerBounds,
\* leftWallVelocity ): [particles, numberOfCollisions]
doParticleContainerCollisions(particles, containerBounds) ==
  [particles |-> [i \in 1 .. Len(particles) |->
                    collideWithContainer(particles[i], containerBounds).particle],
   numberOfCollisions |-> countCollided(particles, containerBounds)]

\* BaseContainer.containsParticle( particle )
containsParticle(containerBounds, p) ==
  /\ RLeq(RInt(containerBounds.minX), particleLeft(p))
  /\ RLeq(particleRight(p), RInt(containerBounds.maxX))
  /\ RLeq(RInt(containerBounds.minY), particleBottom(p))
  /\ RLeq(particleTop(p), RInt(containerBounds.maxY))

\* BaseContainer.containsParticles, for one array
containsParticles(containerBounds, particles) ==
  \A i \in 1 .. Len(particles) : containsParticle(containerBounds, particles[i])

\* Particle.intersectsBounds( bounds )
intersectsBounds(p, b) ==
  /\ RLeq(b.minX, particleRight(p))
  /\ RLeq(particleLeft(p), b.maxX)
  /\ RLeq(b.minY, particleTop(p))
  /\ RLeq(particleBottom(p), b.maxY)

\* scales handed to redistributeParticles, in halves: 0 and 0.5
ScaleHalves == {0, 1}

\* ParticleSystem.redistributeParticles( scaleX )
RedistributeParticles ==
  \E h \in ScaleHalves :
    /\ ops < MaxOps
    /\ heavyParticles' = redistributeParticles(heavyParticles, Rat(h, 2))
    /\ lightParticles' = redistributeParticles(lightParticles, Rat(h, 2))
    /\ failedAssertions' = failedAssertions \cup scaleXAssertion(Rat(h, 2))
    /\ calls' = <<>>
    /\ lastOp' = op("redistributeParticles", "", h)
    /\ ops' = ops + 1
    /\ UNCHANGED <<heavyParticlesOutside, lightParticlesOutside, numberOfHeavyParticles,
                   numberOfLightParticles, collisionsEnabled, disposed, nextId, width, volume,
                   bounds, heats>>
    /\ UNCHANGED <<idealVars, gaugeVars, diffusionVars, averageSpeedVars, dataVars>>

\* time deltas handed to ParticleSystem.step, in units of the time in which
\* a moving particle covers StepDistance
ParticleSystemDts == {0, 1}

\* the assertion of ParticleSystem.step: `dt > 0`
stepAssertion(dt) == IF dt > 0 THEN {} ELSE {"invalid dt: " \o ToString(dt)}

\* ParticleUtils.stepParticles( particles, dt )
stepParticlesFor(particles, dt) == IF dt = 0 THEN particles ELSE stepParticles(particles)

\* ParticleSystem.step( dt )
ParticleSystemStep ==
  \E dt \in ParticleSystemDts :
    /\ ops < MaxOps
    /\ heavyParticles' = stepParticlesFor(heavyParticles, dt)
    /\ lightParticles' = stepParticlesFor(lightParticles, dt)
    /\ heavyParticlesOutside' = stepParticlesFor(heavyParticlesOutside, dt)
    /\ lightParticlesOutside' = stepParticlesFor(lightParticlesOutside, dt)
    /\ failedAssertions' = failedAssertions \cup stepAssertion(dt)
    /\ calls' = <<>>
    /\ lastOp' = op("particleSystemStep", "", dt)
    /\ ops' = ops + 1
    /\ UNCHANGED <<numberOfHeavyParticles, numberOfLightParticles, collisionsEnabled, disposed,
                   nextId, width, volume, bounds, heats>>
    /\ UNCHANGED <<idealVars, gaugeVars, diffusionVars, averageSpeedVars, dataVars>>

\* the particle has floated above the bounds
isAboveBounds(p, b) == RLess(RInt(b.maxY), particleBottom(p))

\* ParticleUtils.removeParticlesAboveBounds( particles, bounds ): [particles, disposed]
removeParticlesAboveBounds(particles, b) ==
  [particles |-> SelectSeq(particles, LAMBDA p : ~isAboveBounds(p, b)),
   disposed |-> {particles[i].id : i \in {j \in 1 .. Len(particles) : isAboveBounds(particles[j], b)}}]

\* bounds handed to ParticleSystem.removeParticlesAboveBounds: the bounds of
\* the container, and bounds that reach two steps above it
BoundsAbove == {boundsOf(widthRangeDefault),
                [boundsOf(widthRangeDefault) EXCEPT !.maxY = @ + 2 * StepDistance]}

\* ParticleSystem.removeParticlesAboveBounds( bounds )
RemoveParticlesAboveBounds ==
  \E b \in BoundsAbove :
    /\ ops < MaxOps
    /\ heavyParticlesOutside' = removeParticlesAboveBounds(heavyParticlesOutside, b).particles
    /\ lightParticlesOutside' = removeParticlesAboveBounds(lightParticlesOutside, b).particles
    /\ disposed' = disposed \cup removeParticlesAboveBounds(heavyParticlesOutside, b).disposed
                             \cup removeParticlesAboveBounds(lightParticlesOutside, b).disposed
    /\ calls' = <<>>
    /\ lastOp' = op("removeParticlesAboveBounds", "", b.maxY)
    /\ ops' = ops + 1
    /\ UNCHANGED <<heavyParticles, lightParticles, numberOfHeavyParticles,
                   numberOfLightParticles, collisionsEnabled, nextId, width, volume, bounds,
                   failedAssertions, heats>>
    /\ UNCHANGED <<idealVars, gaugeVars, diffusionVars, averageSpeedVars, dataVars>>

Next ==
  \/ SetNumberOfHeavyParticles
  \/ SetNumberOfLightParticles
  \/ SetCollisionsEnabled
  \/ HeatCool
  \/ SetTemperature
  \/ SetWidth
  \/ ResetContainer
  \/ ResetParticleSystem
  \/ EscapeParticles
  \/ ParticleSystemStep
  \/ RemoveParticlesAboveBounds
  \/ RedistributeParticles

\* ======================================================================
\* IdealModel
\* ======================================================================

\* null, the value of an empty reading
Null == [n |-> 0, d |-> -1]

EMPTY_INITIAL_TEMPERATURE == 300

wallThickness == 75

\* Container.hoseLocation (the class is not among the sources): on the
\* outside of the right wall, at half the container's height
hoseLocation == [x |-> location.x + wallThickness, y |-> location.y + height \div 2]

\* IdealModel.modelViewTransform = createOffsetXYScaleMapping( ( 645, 475 ), 40, -40 ):
\* the view location of the model's origin and the number of pixels per
\* unit of length; y is inverted
modelViewOffset == [x |-> 645, y |-> 475]

modelViewScale == 40

\* ModelViewTransform2.viewToModelBounds( bounds ) of that mapping (the class
\* is not among the sources): x = ( viewX - 645 ) / 40, y = ( viewY - 475 ) / -40,
\* so the top of the view bounds is the maximum of the model bounds
viewToModelBounds(b) ==
  [minX |-> Rat(b.minX - modelViewOffset.x, modelViewScale),
   minY |-> Rat(modelViewOffset.y - b.maxY, modelViewScale),
   maxX |-> Rat(b.maxX - modelViewOffset.x, modelViewScale),
   maxY |-> Rat(modelViewOffset.y - b.minY, modelViewScale)]

\* ScreenView.layoutBounds, the value of visibleBoundsProperty when the view
\* is created, in view coordinates
layoutBounds == [minX |-> 0, minY |-> 0, maxX |-> 1024, maxY |-> 618]

\* values of ScreenView.visibleBoundsProperty: the layout bounds, and the
\* bounds of a window that is wider
VisibleBounds ==
  {layoutBounds, [minX |-> -128, minY |-> 0, maxX |-> 1152, maxY |-> 618]}

\* IdealModel.addParticles( n, particles, Constructor ); rs are the draws of nextDouble()
IdealModel_addParticles(n, particles, species, firstId, thermometer, rs) ==
  LET T == IF thermometer = Null THEN RInt(EMPTY_INITIAL_TEMPERATURE) ELSE thermometer
      create(i) ==
        LET particle == createParticle(species, firstId + i - 1)
            located == setLocationXY(particle,
                                     RSub(RInt(hoseLocation.x - wallThickness), particle.radius),
                                     RInt(hoseLocation.y))
        IN  setVelocityPolar(located,
                             SqrtSquared(RDiv(RMul(RInt(3 * BOLTZMANN), T), RInt(particle.mass))),
                             entryAngle(rs[i]))
  IN  particles \o [i \in 1 .. n |-> create(i)]

\* the listener of numberOfHeavyParticlesProperty / numberOfLightParticlesProperty:
\* [particles, disposed, created, failed]
IdealModel_numberOfParticlesListener(newValue, oldValue, particles, species, firstId, thermometer, rs) ==
  IF Len(particles) # newValue
  THEN LET delta == newValue - oldValue
           removed == removeParticles(-delta, particles)
           after == IF delta > 0
                    THEN IdealModel_addParticles(delta, particles, species, firstId, thermometer, rs)
                    ELSE IF delta < 0 THEN removed.particles ELSE particles
       IN  [particles |-> after,
            disposed |-> IF delta < 0 THEN removed.disposed ELSE {},
            created |-> IF delta > 0 THEN delta ELSE 0,
            failed |-> (IF delta < 0 THEN removed.failed ELSE {})
                       \cup (IF Len(after) = newValue THEN {}
                             ELSE IF species = "heavy"
                             THEN {"heavyParticles and numberOfHeavyParticlesProperty are out of sync"}
                             ELSE {"lightParticles and numberOfLightParticlesProperty are out of sync"})]
  ELSE [particles |-> particles, disposed |-> {}, created |-> 0, failed |-> {}]

\* updateTemperature with the reading taken from the heavy particles alone
updateTemperatureOfHeavy(heavy, light) ==
  IF Len(heavy) = 0
  THEN Null
  ELSE RDiv(RMul(Rat(2, 3), RDiv(RSum(kineticEnergies(heavy)), RInt(Len(heavy)))),
            RInt(BOLTZMANN))

\* IdealModel.updateTemperature(): the new value of the thermometer
updateTemperature(heavy, light) ==
  LET numberOfParticles == Len(heavy) + Len(light)
      averageKineticEnergy ==
        RDiv(RAdd(RSum(kineticEnergies(heavy)), RSum(kineticEnergies(light))),
             RInt(numberOfParticles))
  IN  IF numberOfParticles = 0
      THEN Null
      ELSE RDiv(RMul(Rat(2, 3), averageKineticEnergy), RInt(BOLTZMANN))

\* this.updateTemperature() at its place in stepModelTime: it reads the arrays
\* after heat/cool, the advance of the particles and collision detection
updateTemperatureInStep(heavyBefore, lightBefore, heavyAfter, lightAfter) ==
  updateTemperature(heavyAfter, lightAfter)

\* removeParticlesOutOfBounds( particles, bounds ): the loop index advances
\* also after a removal; [particles, disposed]
RECURSIVE removeParticlesOutOfBoundsFrom(_, _, _, _)
removeParticlesOutOfBoundsFrom(i, particles, removedIds, b) ==
  IF i > Len(particles) THEN [particles |-> particles, disposed |-> removedIds]
  ELSE IF ~intersectsBounds(particles[i], b)
       THEN LET r == removeParticle(particles[i], particles)
            IN  removeParticlesOutOfBoundsFrom(i + 1, r.particles, removedIds \cup r.disposed, b)
       ELSE removeParticlesOutOfBoundsFrom(i + 1, particles, removedIds, b)

removeParticlesOutOfBounds(particles, b) == removeParticlesOutOfBoundsFrom(1, particles, {}, b)

\* Particle.toString(): the particle's identity
Particle_toString(p) == "P" \o ToString(p.id)

\* assertContainerEnclosesParticles( container, particles ): one assertion
\* per particle
assertContainerEnclosesParticles(containerBounds, particles) ==
  {"container does not enclose particle: " \o Particle_toString(particles[i]) :
     i \in {j \in 1 .. Len(particles) : ~containsParticle(containerBounds, particles[j])}}

\* number of operations explored in one behaviour of IdealModel: enough for a
\* particle to cross the container and collide with its left wall
IdealMaxOps == MaxOps + 1

\* the constructor of PressureGauge as far as its parameters go: without
\* them the assertion on pressureProperty is the first to fail, and where
\* assertions are off `pressureProperty.value` ends the constructor with a
\* TypeError; with them the constructor completes
PressureGauge_constructor(hasProperties) ==
  IF hasProperties
  THEN [assertion |-> "", error |-> ""]
  ELSE [assertion |-> "invalid pressureProperty: undefined",
        error |-> "TypeError: Cannot read properties of undefined (reading 'value')"]

\* the fields the constructor of IdealModel initialises.  It ends with
\* `this.pressureGauge = new PressureGauge()`, a call without arguments that
\* the PressureGauge of the sources does not survive: idealModelThrown is
\* what the constructor throws, with assertions and without.  The operations
\* of IdealModel below are those of the object whose gauge was given its
\* properties
InitIdealModel ==
  /\ isPlaying = TRUE
  /\ heatCoolFactorProperty = 0
  /\ temperatureKelvin = Null
  /\ stopwatchTime = 0
  /\ numberOfCollisions = 0
  /\ idealModelThrown = PressureGauge_constructor(FALSE)

\* the listener of visibleBoundsProperty in GasPropertiesScreenView, called
\* whenever the visible bounds change (and by link() when the view is created):
\* model.modelBoundsProperty.value = model.modelViewTransform.viewToModelBounds( visibleBounds )
VisibleBoundsChanged ==
  \E visibleBounds \in VisibleBounds :
    /\ ops < IdealMaxOps
    /\ viewToModelBounds(visibleBounds) # modelBounds
    /\ modelBounds' = viewToModelBounds(visibleBounds)
    /\ calls' = <<>>
    /\ lastOp' = op("visibleBoundsChanged", "", visibleBounds.maxX)
    /\ ops' = ops + 1
    /\ UNCHANGED <<heavyParticles, lightParticles, heavyParticlesOutside, lightParticlesOutside,
                   numberOfHeavyParticles, numberOfLightParticles, collisionsEnabled, disposed,
                   nextId, width, volume, bounds, failedAssertions, heats>>
    /\ UNCHANGED <<idealVars, gaugeVars, diffusionVars, averageSpeedVars, leftData, rightData,
                   gaussian, flowRate, viewVars, redistribute, idealModelThrown>>

\* numberOfHeavyParticlesProperty.value = v in IdealModel
IdealSetNumberOfHeavyParticles ==
  \E v \in ParticlesRange, rs \in [1 .. MaxParticles -> RandomDraws] :
    /\ ops < IdealMaxOps
    /\ v # numberOfHeavyParticles
    /\ LET r == IdealModel_numberOfParticlesListener(v, numberOfHeavyParticles, heavyParticles,
                                                     "heavy", nextId, temperatureKelvin, rs)
       IN  /\ heavyParticles' = r.particles
           /\ numberOfHeavyParticles' = v
           /\ disposed' = disposed \cup r.disposed
           /\ nextId' = nextId + r.created
           /\ calls' = << callRecord("heavy", v, numberOfHeavyParticles, heavyParticles, r) >>
           /\ failedAssertions' = failedAssertions \cup r.failed
           /\ lastOp' = op("setNumberOfParticles", "heavy", v - numberOfHeavyParticles)
    /\ ops' = ops + 1
    /\ UNCHANGED <<lightParticles, heavyParticlesOutside, lightParticlesOutside,
                   numberOfLightParticles, collisionsEnabled, width, volume, bounds, heats>>
    /\ UNCHANGED <<idealVars, gaugeVars, diffusionVars, averageSpeedVars, dataVars>>

\* numberOfLightParticlesProperty.value = v in IdealModel
IdealSetNumberOfLightParticles ==
  \E v \in ParticlesRange, rs \in [1 .. MaxParticles -> RandomDraws] :
    /\ ops < IdealMaxOps
    /\ v # numberOfLightParticles
    /\ LET r == IdealModel_numberOfParticlesListener(v, numberOfLightParticles, lightParticles,
                                                     "light", nextId, temperatureKelvin, rs)
       IN  /\ lightParticles' = r.particles
           /\ numberOfLightParticles' = v
           /\ disposed' = disposed \cup r.disposed
           /\ nextId' = nextId + r.created
           /\ calls' = << callRecord("light", v, numberOfLightParticles, lightParticles, r) >>
           /\ failedAssertions' = failedAssertions \cup r.failed
           /\ lastOp' = op("setNumberOfParticles", "light", v - numberOfLightParticles)
    /\ ops' = ops + 1
    /\ UNCHANGED <<heavyParticles, heavyParticlesOutside, lightParticlesOutside,
                   numberOfHeavyParticles, collisionsEnabled, width, volume, bounds, heats>>
    /\ UNCHANGED <<idealVars, gaugeVars, diffusionVars, averageSpeedVars, dataVars>>

\* isPlayingProperty.value = !isPlayingProperty.value (the play/pause button)
SetIsPlaying ==
  /\ ops < IdealMaxOps
  /\ isPlaying' = ~isPlaying
  /\ calls' = <<>>
  /\ lastOp' = op("setIsPlaying", "", 0)
  /\ ops' = ops + 1
  /\ UNCHANGED <<heavyParticles, lightParticles, heavyParticlesOutside, lightParticlesOutside,
                 numberOfHeavyParticles, numberOfLightParticles, collisionsEnabled, disposed,
                 nextId, width, volume, bounds, failedAssertions, heats>>
  /\ UNCHANGED <<heatCoolFactorProperty, temperatureKelvin, stopwatchTime, numberOfCollisions>>
  /\ UNCHANGED <<gaugeVars, diffusionVars, averageSpeedVars, dataVars>>

\* heatCoolFactorProperty.value = f
SetHeatCoolFactor ==
  \E f \in HeatCoolFactors :
    /\ ops < IdealMaxOps
    /\ f # heatCoolFactorProperty
    /\ heatCoolFactorProperty' = f
    /\ calls' = <<>>
    /\ lastOp' = op("setHeatCoolFactor", "", f)
    /\ ops' = ops + 1
    /\ UNCHANGED <<heavyParticles, lightParticles, heavyParticlesOutside, lightParticlesOutside,
                   numberOfHeavyParticles, numberOfLightParticles, collisionsEnabled, disposed,
                   nextId, width, volume, bounds, failedAssertions, heats>>
    /\ UNCHANGED <<isPlaying, temperatureKelvin, stopwatchTime, numberOfCollisions>>
    /\ UNCHANGED <<gaugeVars, diffusionVars, averageSpeedVars, dataVars>>

\* IdealModel.stepModelTime( dt )
\* a model that steps whether it is playing or not
stepsAlways(playing) == TRUE

\* the condition under which stepModelTime does anything: `if ( this.isPlayingProperty.value )`
stepsWhen(playing) == playing

StepModelTime ==
  /\ ops < IdealMaxOps
  /\ heatCoolFactorProperty = 0 \/ ~isPlaying \/ heats < MaxHeatCool
  /\ IF stepsWhen(isPlaying)
     THEN LET heatedHeavy == IF heatCoolFactorProperty # 0
                             THEN heatCoolParticles(heavyParticles, heatCoolFactorProperty)
                             ELSE heavyParticles
              heatedLight == IF heatCoolFactorProperty # 0
                             THEN heatCoolParticles(lightParticles, heatCoolFactorProperty)
                             ELSE lightParticles
              heavy == doParticleContainerCollisions(stepParticles(heatedHeavy), bounds)
              light == doParticleContainerCollisions(stepParticles(heatedLight), bounds)
              heavyOutside == removeParticlesOutOfBounds(stepParticles(heavyParticlesOutside),
                                                         modelBounds)
              lightOutside == removeParticlesOutOfBounds(stepParticles(lightParticlesOutside),
                                                         modelBounds)
          IN  /\ stopwatchTime' = stopwatchTime + 1
              /\ heavyParticles' = heavy.particles
              /\ lightParticles' = light.particles
              /\ heavyParticlesOutside' = heavyOutside.particles
              /\ lightParticlesOutside' = lightOutside.particles
              /\ disposed' = disposed \cup heavyOutside.disposed \cup lightOutside.disposed
              /\ failedAssertions' = failedAssertions
                                       \cup assertContainerEnclosesParticles(bounds, heavy.particles)
                                       \cup assertContainerEnclosesParticles(bounds, light.particles)
              /\ temperatureKelvin' = updateTemperatureInStep(heavyParticles, lightParticles,
                                                              heavy.particles, light.particles)
              /\ numberOfCollisions' = numberOfCollisions + heavy.numberOfCollisions
                                         + light.numberOfCollisions
              /\ heats' = IF heatCoolFactorProperty # 0 THEN heats + 1 ELSE heats
     ELSE UNCHANGED <<stopwatchTime, heavyParticles, lightParticles, heavyParticlesOutside,
                      lightParticlesOutside, disposed, failedAssertions, temperatureKelvin,
                      numberOfCollisions, heats>>
  /\ calls' = <<>>
  /\ lastOp' = op("stepModelTime", "", IF isPlaying THEN 1 ELSE 0)
  /\ ops' = ops + 1
  /\ UNCHANGED <<numberOfHeavyParticles, numberOfLightParticles, collisionsEnabled, nextId,
                 width, volume, bounds, isPlaying, heatCoolFactorProperty>>
  /\ UNCHANGED <<gaugeVars, diffusionVars, averageSpeedVars, dataVars>>

\* the part of a reset that clears one species: property.reset() and its listener
IdealModel_resetNumberOfParticles(number, particles, species, firstId, thermometer) ==
  IF number # ParticlesRangeDefault
  THEN LET r == IdealModel_numberOfParticlesListener(ParticlesRangeDefault, number, particles,
                                                     species, firstId, thermometer, <<>>)
       IN  [particles |-> r.particles, disposed |-> r.disposed, failed |-> r.failed,
            calls |-> << callRecord(species, ParticlesRangeDefault, number, particles, r) >>]
  ELSE [particles |-> particles, disposed |-> {}, failed |-> {}, calls |-> <<>>]

\* an inside array after this.container.reset(): a width that changes
\* notifies the listener that redistributes, if it is installed
afterContainerReset(particles, oldWidth, strategy) ==
  IF oldWidth # widthRangeDefault /\ strategy = "drag"
  THEN redistributeParticles(particles, Rat(widthRangeDefault, oldWidth))
  ELSE particles

\* IdealModel.redistributeParticles( ratio )
IdealRedistributeParticles ==
  \E h \in ScaleHalves :
    /\ ops < IdealMaxOps
    /\ heavyParticles' = redistributeParticles(heavyParticles, Rat(h, 2))
    /\ lightParticles' = redistributeParticles(lightParticles, Rat(h, 2))
    /\ failedAssertions' = failedAssertions \cup redistributeAssertion(Rat(h, 2))
    /\ calls' = <<>>
    /\ lastOp' = op("idealRedistributeParticles", "", h)
    /\ ops' = ops + 1
    /\ UNCHANGED <<heavyParticlesOutside, lightParticlesOutside, numberOfHeavyParticles,
                   numberOfLightParticles, collisionsEnabled, disposed, nextId, width, volume,
                   bounds, heats>>
    /\ UNCHANGED <<idealVars, gaugeVars, diffusionVars, averageSpeedVars, dataVars>>

\* IdealModel.reset()
ResetIdealModel ==
  /\ ops < IdealMaxOps
  /\ LET h == IdealModel_resetNumberOfParticles(
                numberOfHeavyParticles, afterContainerReset(heavyParticles, width, redistribute),
                "heavy", nextId, Null)
         l == IdealModel_resetNumberOfParticles(
                numberOfLightParticles, afterContainerReset(lightParticles, width, redistribute),
                "light", nextId, Null)
         ho == removeParticles(Len(heavyParticlesOutside), heavyParticlesOutside)
         lo == removeParticles(Len(lightParticlesOutside), lightParticlesOutside)
     IN  /\ numberOfHeavyParticles' = ParticlesRangeDefault
         /\ numberOfLightParticles' = ParticlesRangeDefault
         /\ heavyParticles' = h.particles
         /\ lightParticles' = l.particles
         /\ heavyParticlesOutside' = ho.particles
         /\ lightParticlesOutside' = lo.particles
         /\ disposed' = disposed \cup h.disposed \cup l.disposed \cup ho.disposed \cup lo.disposed
         /\ calls' = h.calls \o l.calls
         /\ failedAssertions' = failedAssertions \cup h.failed \cup l.failed
                                  \cup (IF Len(h.particles) = 0 THEN {}
                                        ELSE {"there should be no heavyParticles"})
                                  \cup (IF Len(l.particles) = 0 THEN {}
                                        ELSE {"there should be no lightParticles"})
  /\ width' = widthRangeDefault
  /\ volume' = volumeOf(widthRangeDefault)
  /\ bounds' = boundsOf(widthRangeDefault)
  /\ isPlaying' = TRUE
  /\ heatCoolFactorProperty' = 0
  /\ temperatureKelvin' = Null
  /\ stopwatchTime' = 0
  /\ numberOfCollisions' = 0
  /\ unitsProperty' = "ATMOSPHERES"
  /\ dtAccumulator' = RInt(0)
  /\ holdConstantProperty' = "NOTHING"
  /\ screenView' = [screenView EXCEPT !.isTimeControlsEnabled = TRUE,
                                      !.collisionCounterIsRunning = FALSE]
  /\ lastOp' = op("reset", "", 0)
  /\ ops' = ops + 1
  /\ UNCHANGED <<collisionsEnabled, nextId, heats>>
  /\ UNCHANGED <<pressureProperty, temperatureProperty, pressureNoiseProperty,
                 pressureKilopascalsProperty, lastNoise, lastDt>>
  /\ UNCHANGED <<diffusionVars, averageSpeedVars, leftData, rightData, gaussian, flowRate,
                 lid, redistribute, modelBounds, idealModelThrown>>

\* y-coordinates at which a particle is found outside the container: within
\* the model bounds, and above them
OutsideYs == {0, 2 * StepDistance}

\* a particle that has left the container is on the outside array of its
\* species (heavyOutsideParticles / lightOutsideParticles), at rest at ( 0, y )
OutsideParticleArrives ==
  \E species \in {"heavy", "light"}, y \in OutsideYs :
    /\ ops < IdealMaxOps
    /\ Len(heavyParticlesOutside) + Len(lightParticlesOutside) < MaxParticles + 1
    /\ IF species = "heavy"
       THEN /\ heavyParticlesOutside' =
                 Append(heavyParticlesOutside,
                        setLocationXY(createParticle(species, nextId), RInt(0), RInt(y)))
            /\ UNCHANGED lightParticlesOutside
       ELSE /\ lightParticlesOutside' =
                 Append(lightParticlesOutside,
                        setLocationXY(createParticle(species, nextId), RInt(0), RInt(y)))
            /\ UNCHANGED heavyParticlesOutside
    /\ nextId' = nextId + 1
    /\ calls' = <<>>
    /\ lastOp' = op("outsideParticleArrives", species, y)
    /\ ops' = ops + 1
    /\ UNCHANGED <<heavyParticles, lightParticles, numberOfHeavyParticles, numberOfLightParticles,
                   collisionsEnabled, disposed, width, volume, bounds, failedAssertions, heats>>
    /\ UNCHANGED <<idealVars, gaugeVars, diffusionVars, averageSpeedVars, dataVars>>

\* IdealModel stepped while particles are outside the container
NextOutside ==
  \/ OutsideParticleArrives
  \/ VisibleBoundsChanged
  \/ StepModelTime

NextIdeal ==
  \/ IdealSetNumberOfHeavyParticles
  \/ IdealSetNumberOfLightParticles
  \/ SetIsPlaying
  \/ SetHeatCoolFactor
  \/ StepModelTime
  \/ ResetIdealModel
  \/ SetWidth
  \/ IdealRedistributeParticles
  \/ VisibleBoundsChanged

\* ======================================================================
\* PressureGauge.  The pressure and temperature Properties handed to the
\* constructor belong to the model that owns the gauge; their values are
\* inputs here.
\* ======================================================================

\* GasPropertiesQueryParameters.maxPressure, in kPa (not among the sources)
MAX_PRESSURE == 1000

MIN_NOISE == 0

MAX_NOISE == 50

\* PressureGauge.REFRESH_PERIOD = 0.75 ps
REFRESH_PERIOD == Rat(3, 4)

\* the number that JavaScript arithmetic takes for a value: null is 0
ToNumber(v) == IF v = Null THEN RInt(0) ELSE v

\* Util.clamp( value, min, max )
clamp(value, min, max) == IF RLess(value, min) THEN min ELSE IF RLess(max, value) THEN max ELSE value

\* Util.linear( a1, a2, b1, b2, a3 )
linear(a1, a2, b1, b2, a3) ==
  RAdd(RMul(RDiv(RSub(b2, b1), RSub(a2, a1)), RSub(a3, a1)), b1)

\* new LinearFunction( a1, a2, b1, b2, clamp ), evaluated at a3
LinearFunction(a1, a2, b1, b2, isClamped, a3) ==
  LET b3 == linear(a1, a2, b1, b2, ToNumber(a3))
  IN  IF isClamped
      THEN clamp(b3, IF RLess(b1, b2) THEN b1 ELSE b2, IF RLess(b1, b2) THEN b2 ELSE b1)
      ELSE b3

\* this.pressureNoiseFunction
pressureNoiseFunction(p) ==
  LinearFunction(RInt(0), RInt(MAX_PRESSURE), RInt(MAX_NOISE), RInt(MIN_NOISE), TRUE, p)

\* the scale function built without clamping
scaleNoiseFunctionUnclamped(t) ==
  LinearFunction(RInt(5), RInt(50), RInt(0), RInt(1), FALSE, t)

\* this.scaleNoiseFunction
scaleNoiseFunction(t) ==
  LinearFunction(RInt(5), RInt(50), RInt(0), RInt(1), TRUE, t)

\* the noise of a gauge that applies the random sign whatever the pressure
gaugeNoiseAlwaysSigned(p, t, hold, noiseOption, nextDouble, nextBoolean) ==
  IF hold \notin {"PRESSURE_T", "PRESSURE_V"} /\ noiseOption
  THEN RMul(RMul(RMul(pressureNoiseFunction(p), scaleNoiseFunction(t)), nextDouble),
            RInt(IF nextBoolean THEN 1 ELSE -1))
  ELSE RInt(0)

\* the noise of a gauge that looks at the global option alone
gaugeNoiseWhateverHeld(p, t, hold, noiseOption, nextDouble, nextBoolean) ==
  LET computed == RMul(RMul(pressureNoiseFunction(p), scaleNoiseFunction(t)), nextDouble)
  IN  IF noiseOption
      THEN IF RLess(computed, p)
           THEN RMul(computed, RInt(IF nextBoolean THEN 1 ELSE -1))
           ELSE computed
      ELSE RInt(0)

\* the noise that step adds to the pressure, with its sign;
\* nextDouble and nextBoolean are the draws of phet.joist.random
gaugeNoise(p, t, hold, noiseOption, nextDouble, nextBoolean) ==
  LET constantPressure == hold \in {"PRESSURE_T", "PRESSURE_V"}
      noiseEnabled == ~constantPressure /\ noiseOption
      computed == RMul(RMul(pressureNoiseFunction(p), scaleNoiseFunction(t)), nextDouble)
  IN  IF noiseEnabled
      THEN IF RLess(computed, p)
           THEN RMul(computed, RInt(IF nextBoolean THEN 1 ELSE -1))
           ELSE computed
      ELSE RInt(0)

\* values of the model's pressure, in kPa
Pressures == {RInt(0), RInt(10), RInt(500)}

\* values of the model's temperature, in K
GaugeTemperatures == {Null, RInt(20), RInt(300)}

HoldConstants == {"NOTHING", "PRESSURE_T", "PRESSURE_V"}

\* time steps handed to PressureGauge.step, in ps
GaugeDts == {Rat(1, 4), Rat(3, 4)}

\* draws of phet.joist.random.nextDouble()
NextDoubles == {RInt(0), Rat(1, 2)}

InitPressureGauge ==
  /\ pressureProperty = RInt(0)
  /\ temperatureProperty = Null
  /\ holdConstantProperty = "NOTHING"
  /\ pressureNoiseProperty = TRUE
  /\ pressureKilopascalsProperty = RInt(0)
  /\ unitsProperty = "ATMOSPHERES"
  /\ dtAccumulator = RInt(0)
  /\ lastNoise = RInt(0)
  /\ lastDt = RInt(0)

\* number of operations on the gauge explored in one behaviour
GaugeMaxOps == MaxOps + 1

gaugeOp(name, arg) ==
  /\ ops < GaugeMaxOps
  /\ ops' = ops + 1
  /\ lastOp' = op(name, "", arg)
  /\ UNCHANGED <<heavyParticles, lightParticles, heavyParticlesOutside, lightParticlesOutside,
                 numberOfHeavyParticles, numberOfLightParticles, collisionsEnabled, disposed,
                 nextId, width, volume, bounds, calls, failedAssertions, heats>>
  /\ UNCHANGED <<idealVars, diffusionVars, averageSpeedVars, dataVars>>

\* pressureProperty.value = p, and the gauge's listener of pressureProperty
GaugeSetPressure ==
  \E p \in Pressures :
    /\ p # pressureProperty
    /\ pressureProperty' = p
    /\ pressureKilopascalsProperty' = IF p = RInt(0) THEN RInt(0) ELSE pressureKilopascalsProperty
    /\ gaugeOp("setPressure", p.n)
    /\ UNCHANGED <<temperatureProperty, holdConstantProperty, pressureNoiseProperty, unitsProperty, dtAccumulator, lastNoise, lastDt>>

\* temperatureProperty.value = t
GaugeSetTemperature ==
  \E t \in GaugeTemperatures :
    /\ t # temperatureProperty
    /\ temperatureProperty' = t
    /\ gaugeOp("setTemperature", t.n)
    /\ UNCHANGED <<pressureProperty, holdConstantProperty, pressureNoiseProperty, pressureKilopascalsProperty, unitsProperty,
                   dtAccumulator, lastNoise, lastDt>>

\* holdConstantProperty.value = h
GaugeSetHoldConstant ==
  \E h \in HoldConstants :
    /\ h # holdConstantProperty
    /\ holdConstantProperty' = h
    /\ gaugeOp("setHoldConstant", 0)
    /\ UNCHANGED <<pressureProperty, temperatureProperty, pressureNoiseProperty, pressureKilopascalsProperty, unitsProperty,
                   dtAccumulator, lastNoise, lastDt>>

\* GasPropertiesGlobalOptions.pressureNoiseProperty.value = !value
GaugeSetPressureNoise ==
  /\ pressureNoiseProperty' = ~pressureNoiseProperty
  /\ gaugeOp("setPressureNoise", 0)
  /\ UNCHANGED <<pressureProperty, temperatureProperty, holdConstantProperty, pressureKilopascalsProperty, unitsProperty,
                 dtAccumulator, lastNoise, lastDt>>

\* PressureGauge.Units
Units == {"KILOPASCALS", "ATMOSPHERES"}

\* unitsProperty.value = units (the units combo box)
GaugeSetUnits ==
  \E units \in Units :
  /\ units # unitsProperty
  /\ unitsProperty' = units
  /\ gaugeOp("setUnits", 0)
  /\ UNCHANGED <<pressureProperty, temperatureProperty, holdConstantProperty, pressureNoiseProperty, pressureKilopascalsProperty,
                 dtAccumulator, lastNoise, lastDt>>

\* a gauge that refreshes as soon as half the period has accumulated
refreshesBeforePeriod(accumulated) == RLeq(RDiv(REFRESH_PERIOD, RInt(2)), accumulated)

\* a gauge that refreshes only once the period has been exceeded
refreshesPastPeriod(accumulated) == RLess(REFRESH_PERIOD, accumulated)

\* `if ( this.dtAccumulator >= PressureGauge.REFRESH_PERIOD )`
refreshes(accumulated) == RLeq(REFRESH_PERIOD, accumulated)

\* PressureGauge.step( dt )
GaugeStep ==
  \E dt \in GaugeDts, nextDouble \in NextDoubles, nextBoolean \in BOOLEAN :
    LET accumulated == RAdd(dtAccumulator, dt)
        signedNoise == gaugeNoise(pressureProperty, temperatureProperty, holdConstantProperty, pressureNoiseProperty,
                                  nextDouble, nextBoolean)
    IN  /\ lastDt' = dt
        /\ IF refreshes(accumulated)
           THEN /\ pressureKilopascalsProperty' = RAdd(pressureProperty, signedNoise)
                /\ lastNoise' = signedNoise
                /\ dtAccumulator' = RInt(0)
           ELSE /\ dtAccumulator' = accumulated
                /\ UNCHANGED <<pressureKilopascalsProperty, lastNoise>>
        /\ gaugeOp("gaugeStep", IF refreshes(accumulated) THEN 1 ELSE 0)
        /\ UNCHANGED <<pressureProperty, temperatureProperty, holdConstantProperty, pressureNoiseProperty, unitsProperty>>

\* PressureGauge.reset()
GaugeReset ==
  /\ unitsProperty' = "ATMOSPHERES"
  /\ dtAccumulator' = RInt(0)
  /\ gaugeOp("gaugeReset", 0)
  /\ UNCHANGED <<pressureProperty, temperatureProperty, holdConstantProperty, pressureNoiseProperty, pressureKilopascalsProperty, lastNoise, lastDt>>

NextGauge ==
  \/ GaugeSetPressure
  \/ GaugeSetTemperature
  \/ GaugeSetHoldConstant
  \/ GaugeSetPressureNoise
  \/ GaugeSetUnits
  \/ GaugeStep
  \/ GaugeReset

\* ======================================================================
\* DiffusionCollisionDetector.  DiffusionContainer, the super class
\* CollisionDetector and the model that adds the particles are not among
\* the sources; they are modelled from section 4.3 of the specification:
\* the divider splits the container at half its width, and species 1 is
\* added on its left and species 2 on its right.
\* ======================================================================

\* DiffusionContainer.dividerX
dividerX == location.x - widthRangeDefault \div 2

diffusionBounds == boundsOf(widthRangeDefault)

\* DiffusionContainer.leftBounds
leftBounds == [diffusionBounds EXCEPT !.maxX = dividerX]

\* DiffusionContainer.rightBounds
rightBounds == [diffusionBounds EXCEPT !.minX = dividerX]

\* CollisionDetector.updateParticleContainerCollisions(): every array against
\* the bounds of the whole container; [particles1, particles2, numberOfCollisions]
superUpdateParticleContainerCollisions(array1, array2, divider) ==
  LET c1 == doParticleContainerCollisions(array1, diffusionBounds)
      c2 == doParticleContainerCollisions(array2, diffusionBounds)
  IN  [particles1 |-> c1.particles, particles2 |-> c2.particles,
       numberOfCollisions |-> c1.numberOfCollisions + c2.numberOfCollisions]

\* the detector with the two sides exchanged
updateParticleContainerCollisionsSwapped(array1, array2, divider) ==
  IF divider
  THEN LET c1 == doParticleContainerCollisions(array1, rightBounds)
           c2 == doParticleContainerCollisions(array2, leftBounds)
       IN  [particles1 |-> c1.particles, particles2 |-> c2.particles,
            numberOfCollisions |-> c1.numberOfCollisions + c2.numberOfCollisions]
  ELSE superUpdateParticleContainerCollisions(array1, array2, divider)

\* DiffusionCollisionDetector.updateParticleContainerCollisions():
\* [particles1, particles2, numberOfCollisions]
updateParticleContainerCollisions(array1, array2, divider) ==
  IF divider
  THEN LET c1 == doParticleContainerCollisions(array1, leftBounds)
           c2 == doParticleContainerCollisions(array2, rightBounds)
       IN  [particles1 |-> c1.particles, particles2 |-> c2.particles,
            numberOfCollisions |-> c1.numberOfCollisions + c2.numberOfCollisions]
  ELSE superUpdateParticleContainerCollisions(array1, array2, divider)

\* directions in which a diffusion particle starts, in units of PI / 4
DiffusionAngles == {0, 1, 4}

\* a particle of the species, added at the centre of its side of the container
diffusionParticle(species, id, angle) ==
  LET side == IF species = "particle1" THEN leftBounds ELSE rightBounds
      particle == [createParticle("heavy", id) EXCEPT !.species = species]
      located == setLocationXY(particle,
                               Rat(side.minX + side.maxX, 2), Rat(side.minY + side.maxY, 2))
  IN  setVelocityPolar(located,
                       SqrtSquared(RDiv(RMul(RInt(3 * BOLTZMANN), RInt(INITIAL_TEMPERATURE_MIN)),
                                        RInt(particle.mass))),
                       angle)

InitDiffusion ==
  /\ particles1 = <<>>
  /\ particles2 = <<>>
  /\ hasDivider = TRUE
  /\ numberOfParticleContainerCollisions = 0

\* Bounds2.containsPoint( particle.location ): the edges belong to the bounds
containsPoint(b, p) ==
  /\ RLeq(RInt(b.minX), p.x)
  /\ RLeq(p.x, RInt(b.maxX))
  /\ RLeq(RInt(b.minY), p.y)
  /\ RLeq(p.y, RInt(b.maxY))

\* one loop of DiffusionData.update: [number, totalKE] of the particles of
\* the array whose location is within the bounds, added to the running pair
RECURSIVE contribution(_, _, _)
contribution(b, particles, running) ==
  IF particles = <<>> THEN running
  ELSE contribution(b, Tail(particles),
                    IF containsPoint(b, Head(particles))
                    THEN [number |-> running.number + 1,
                          totalKE |-> RAdd(running.totalKE, getKineticEnergy(Head(particles)))]
                    ELSE running)

\* T = (2/3)KE/k of the average kinetic energy, null for no particles
averageTemperatureOf(totalKE, totalNumberOfParticles) ==
  IF totalNumberOfParticles = 0
  THEN Null
  ELSE RDiv(RMul(Rat(2, 3), RDiv(totalKE, RInt(totalNumberOfParticles))), RInt(BOLTZMANN))

\* the Properties that update() sets, from the results of its two loops
diffusionDataOf(c1, c2) ==
  [numberOfParticles1 |-> c1.number,
   numberOfParticles2 |-> c2.number - c1.number,
   averageTemperature |-> averageTemperatureOf(c2.totalKE, c2.number)]

\* update() counting every particle of the arrays, wherever it is
DiffusionData_updateUnbounded(b, array1, array2) ==
  diffusionDataOf([number |-> Len(array1), totalKE |-> RSum([i \in 1 .. Len(array1) |-> getKineticEnergy(array1[i])])],
                  [number |-> Len(array1) + Len(array2),
                   totalKE |-> RAdd(RSum([i \in 1 .. Len(array1) |-> getKineticEnergy(array1[i])]),
                                    RSum([i \in 1 .. Len(array2) |-> getKineticEnergy(array2[i])]))])

\* DiffusionData.update() of the data of the side with bounds b
DiffusionData_update(b, array1, array2) ==
  diffusionDataOf(contribution(b, array1, [number |-> 0, totalKE |-> RInt(0)]),
                  contribution(b, array2, contribution(b, array1, [number |-> 0, totalKE |-> RInt(0)])))

\* the assertion of update()
DiffusionData_updateAssertion(data) ==
  IF data.averageTemperature # Null /\ data.averageTemperature = RInt(0)
  THEN {"totalKE should not be zero when the container is not empty"}
  ELSE {}

\* the constructor of DiffusionData calls update() on the empty arrays
InitDiffusionData ==
  /\ leftData = DiffusionData_update(leftBounds, <<>>, <<>>)
  /\ rightData = DiffusionData_update(rightBounds, <<>>, <<>>)

InitGaussian ==
  gaussian = [n |-> 0, mean |-> RInt(0), raw |-> <<>>, values |-> <<>>]

\* GasPropertiesUtils.getGaussianValues( n, mean, 0.2 * mean, 1E-3 )
GetGaussianValues ==
  \E n \in 1 .. MaxParticles + 1, mean \in GaussianMeans :
    \E zs \in [1 .. n -> GaussianZs] :
      /\ ops < MaxOps
      /\ gaussian' = [n |-> n, mean |-> RInt(mean),
                      raw |-> rawGaussianValues(n, RInt(mean), RMul(Rat(2, 10), RInt(mean)), zs),
                      values |-> getGaussianValues(n, RInt(mean), RMul(Rat(2, 10), RInt(mean)), zs)]
      /\ ops' = ops + 1
      /\ lastOp' = op("getGaussianValues", "", n)
      /\ UNCHANGED <<heavyParticles, lightParticles, heavyParticlesOutside, lightParticlesOutside,
                     numberOfHeavyParticles, numberOfLightParticles, collisionsEnabled, disposed,
                     nextId, width, volume, bounds, calls, failedAssertions, heats>>
      /\ UNCHANGED <<leftData, rightData, flowRate, viewVars, redistribute, modelBounds, idealModelThrown>>
      /\ UNCHANGED <<idealVars, gaugeVars, diffusionVars, averageSpeedVars>>

NextGaussian == GetGaussianValues

diffusionOp(name, species) ==
  /\ ops < MaxOps + 1
  /\ ops' = ops + 1
  /\ lastOp' = op(name, species, 0)
  /\ UNCHANGED <<heavyParticles, lightParticles, heavyParticlesOutside, lightParticlesOutside,
                 numberOfHeavyParticles, numberOfLightParticles, collisionsEnabled, disposed,
                 width, volume, bounds, calls, failedAssertions, heats>>
  /\ UNCHANGED <<idealVars, gaugeVars, averageSpeedVars, dataVars>>

\* a particle of species 1 is added to the left side
AddParticle1 ==
  \E angle \in DiffusionAngles :
    /\ Len(particles1) < MaxParticles
    /\ particles1' = Append(particles1, diffusionParticle("particle1", nextId, angle))
    /\ nextId' = nextId + 1
    /\ diffusionOp("addParticle", "particle1")
    /\ UNCHANGED <<particles2, hasDivider, numberOfParticleContainerCollisions>>

\* a particle of species 2 is added to the right side
AddParticle2 ==
  \E angle \in DiffusionAngles :
    /\ Len(particles2) < MaxParticles
    /\ particles2' = Append(particles2, diffusionParticle("particle2", nextId, angle))
    /\ nextId' = nextId + 1
    /\ diffusionOp("addParticle", "particle2")
    /\ UNCHANGED <<particles1, hasDivider, numberOfParticleContainerCollisions>>

\* hasDividerProperty.value = false (the Remove Divider button)
RemoveDivider ==
  /\ hasDivider
  /\ hasDivider' = FALSE
  /\ diffusionOp("removeDivider", "")
  /\ UNCHANGED <<particles1, particles2, nextId, numberOfParticleContainerCollisions>>

\* the model is reset: the particles are removed and the divider is restored
ResetDiffusion ==
  /\ particles1' = <<>>
  /\ particles2' = <<>>
  /\ hasDivider' = TRUE
  /\ numberOfParticleContainerCollisions' = 0
  /\ diffusionOp("reset", "")
  /\ UNCHANGED nextId

\* one step of the detector: the particles have moved, then
\* updateParticleContainerCollisions() handles the walls
DiffusionStep ==
  LET r == updateParticleContainerCollisions(stepParticles(particles1), stepParticles(particles2),
                                             hasDivider)
  IN  /\ particles1' = r.particles1
      /\ particles2' = r.particles2
      /\ numberOfParticleContainerCollisions' = r.numberOfCollisions
      /\ diffusionOp("diffusionStep", "")
      /\ UNCHANGED <<hasDivider, nextId>>

\* leftData.update() and rightData.update()
UpdateData ==
  /\ ops < MaxOps + 1
  /\ leftData' = DiffusionData_update(leftBounds, particles1, particles2)
  /\ rightData' = DiffusionData_update(rightBounds, particles1, particles2)
  /\ failedAssertions' = failedAssertions \cup
       DiffusionData_updateAssertion(DiffusionData_update(leftBounds, particles1, particles2)) \cup
       DiffusionData_updateAssertion(DiffusionData_update(rightBounds, particles1, particles2))
  /\ ops' = ops + 1
  /\ lastOp' = op("updateData", "", 0)
  /\ UNCHANGED <<heavyParticles, lightParticles, heavyParticlesOutside, lightParticlesOutside,
                 numberOfHeavyParticles, numberOfLightParticles, collisionsEnabled, disposed,
                 nextId, width, volume, bounds, calls, heats, gaussian, flowRate,
                     viewVars, redistribute, modelBounds, idealModelThrown>>
  /\ UNCHANGED <<idealVars, gaugeVars, diffusionVars, averageSpeedVars>>

\* the diffusion model with the data of its two sides
NextDiffusionData ==
  \/ AddParticle1
  \/ AddParticle2
  \/ RemoveDivider
  \/ DiffusionStep
  \/ UpdateData

NextDiffusion ==
  \/ AddParticle1
  \/ AddParticle2
  \/ RemoveDivider
  \/ ResetDiffusion
  \/ DiffusionStep

\* the state after construction of every component
\* ======================================================================
\* AverageSpeedModel.  The particle arrays it reads are inputs: the speeds
\* ( velocity.magnitude, in pm/ps ) of the particles of each species.
\* ======================================================================

\* constructor argument samplePeriod, in ps
samplePeriod == 2

\* time deltas handed to step, in ps
AverageSpeedDts == {-1, 0, 1}

\* speeds of the particles of one species in the container
ParticleSpeeds == {<<>>, <<100, 300>>}

getAverageSpeed(speeds) ==
  IF Len(speeds) > 0
  THEN RDiv(RSum([i \in 1 .. Len(speeds) |-> RInt(speeds[i])]), RInt(Len(speeds)))
  ELSE RInt(0)

clearSamples(m) ==
  [m EXCEPT !.dtAccumulator = RInt(0), !.numberOfSamples = 0,
            !.heavyAverageSpeedSum = RInt(0), !.lightAverageSpeedSum = RInt(0)]

\* the assertion of sample()
sampleAssertion(m, playing) ==
  IF m.numberOfSamples # 0 /\ ~playing
  THEN {"numberOfSamples should be 0 if called while the sim is paused"}
  ELSE {}

sample(m, heavy, light) ==
  [m EXCEPT !.heavyAverageSpeedSum = RAdd(@, getAverageSpeed(heavy)),
            !.lightAverageSpeedSum = RAdd(@, getAverageSpeed(light)),
            !.numberOfSamples = @ + 1]

\* the assertion of update()
updateAssertion(m, playing) ==
  IF m.numberOfSamples # 1 /\ ~playing
  THEN {"numberOfSamples should be 1 if called while the sim is paused"}
  ELSE {}

averageSpeedUpdate(m, heavy, light) ==
  clearSamples(
    [m EXCEPT !.heavyAverageSpeed =
                 IF Len(heavy) = 0 THEN Null
                 ELSE RDiv(m.heavyAverageSpeedSum, RInt(m.numberOfSamples)),
              !.lightAverageSpeed =
                 IF Len(light) = 0 THEN Null
                 ELSE RDiv(m.lightAverageSpeedSum, RInt(m.numberOfSamples))])

\* whether step( dt ) goes on to update()
updatesNow(accumulated, playing) == RLeq(RInt(samplePeriod), accumulated) \/ ~playing

\* step( dt ), on the model with dt accumulated
averageSpeedStepSampled(sampled, playing, heavy, light) ==
  IF updatesNow(sampled.dtAccumulator, playing)
  THEN averageSpeedUpdate(sampled, heavy, light)
  ELSE sampled

averageSpeedStep(m, dt, playing, heavy, light) ==
  averageSpeedStepSampled(
    sample([m EXCEPT !.dtAccumulator = RAdd(@, RInt(dt))], heavy, light), playing, heavy, light)

\* the assertions that fail during step( dt )
averageSpeedStepAssertions(m, dt, playing, heavy, light) ==
  sampleAssertion(m, playing) \cup
  (IF updatesNow(RAdd(m.dtAccumulator, RInt(dt)), playing)
   THEN updateAssertion([m EXCEPT !.numberOfSamples = @ + 1], playing)
   ELSE {})

InitAverageSpeed ==
  averageSpeedModel = [dtAccumulator |-> RInt(0), numberOfSamples |-> 0,
                       heavyAverageSpeedSum |-> RInt(0), lightAverageSpeedSum |-> RInt(0),
                       heavyAverageSpeed |-> Null, lightAverageSpeed |-> Null]

averageSpeedOp(name, arg) ==
  /\ ops < IdealMaxOps
  /\ ops' = ops + 1
  /\ lastOp' = op(name, "", arg)
  /\ UNCHANGED <<heavyParticles, lightParticles, heavyParticlesOutside, lightParticlesOutside,
                 numberOfHeavyParticles, numberOfLightParticles, collisionsEnabled, disposed,
                 nextId, width, volume, bounds, calls, heats>>
  /\ UNCHANGED <<heatCoolFactorProperty, temperatureKelvin, stopwatchTime, numberOfCollisions>>
  /\ UNCHANGED <<gaugeVars, diffusionVars, dataVars>>
  /\ UNCHANGED histogramsModel

\* averageSpeedModel.step( dt )
AverageSpeedStep ==
  \E dt \in AverageSpeedDts, heavy \in ParticleSpeeds, light \in ParticleSpeeds :
    /\ averageSpeedModel' = averageSpeedStep(averageSpeedModel, dt, isPlaying, heavy, light)
    /\ failedAssertions' = failedAssertions \cup
          averageSpeedStepAssertions(averageSpeedModel, dt, isPlaying, heavy, light)
    /\ UNCHANGED isPlaying
    /\ averageSpeedOp("averageSpeedStep", dt)

\* isPlayingProperty.value = playing, and the model's listener
AverageSpeedSetIsPlaying ==
  \E playing \in BOOLEAN :
    /\ playing # isPlaying
    /\ isPlaying' = playing
    /\ averageSpeedModel' = clearSamples(averageSpeedModel)
    /\ UNCHANGED failedAssertions
    /\ averageSpeedOp("setIsPlaying", IF playing THEN 1 ELSE 0)

\* the listener of particleSystem.numberOfParticlesProperty
AverageSpeedNumberOfParticlesChanged ==
  \E heavy \in ParticleSpeeds, light \in ParticleSpeeds :
    /\ IF ~isPlaying
       THEN /\ averageSpeedModel' =
                 averageSpeedStep(averageSpeedModel, samplePeriod, isPlaying, heavy, light)
            /\ failedAssertions' = failedAssertions \cup
                 averageSpeedStepAssertions(averageSpeedModel, samplePeriod, isPlaying, heavy, light)
       ELSE UNCHANGED <<averageSpeedModel, failedAssertions>>
    /\ UNCHANGED isPlaying
    /\ averageSpeedOp("numberOfParticlesChanged", Len(heavy) + Len(light))

\* averageSpeedModel.reset()
AverageSpeedReset ==
  /\ averageSpeedModel' =
       clearSamples([averageSpeedModel EXCEPT !.heavyAverageSpeed = Null,
                                              !.lightAverageSpeed = Null])
  /\ UNCHANGED <<isPlaying, failedAssertions>>
  /\ averageSpeedOp("averageSpeedReset", 0)

NextAverageSpeed ==
  \/ AverageSpeedStep
  \/ AverageSpeedSetIsPlaying
  \/ AverageSpeedNumberOfParticlesChanged
  \/ AverageSpeedReset

\* ======================================================================
\* HistogramsModel, and the two samplers of the Energy screen driven
\* together: both listen to one isPlayingProperty and one
\* numberOfParticlesProperty, and both are stepped with one dt.
\* ======================================================================

numberOfBins == 19
speedBinWidth == 170
kineticEnergyBinWidth == 800000
HISTOGRAM_LINE_SPACING == 50

\* time deltas handed to the step of both samplers, in ps
SamplerDts == {1, 2}

emptyBins == [i \in 1 .. numberOfBins |-> RInt(0)]

\* getSpeedValues, in pm/ps
getSpeedValues(speeds) == speeds

\* getKineticEnergyValues, in half AMU * pm^2 / ps^2
getKineticEnergyValues(speeds, mass) ==
  [i \in 1 .. Len(speeds) |-> mass * speeds[i] * speeds[i]]

\* number of values of the first samples that fall in the bin with this index
RECURSIVE binned(_, _, _)
binned(sampleArrays, index, binWidth) ==
  IF sampleArrays = <<>> THEN 0
  ELSE Cardinality({j \in 1 .. Len(Head(sampleArrays)) :
                      Head(sampleArrays)[j] \div binWidth = index})
       + binned(Tail(sampleArrays), index, binWidth)

samplesToBinCounts(sampleArrays, bins, binWidth) ==
  [i \in 1 .. bins |->
     RDiv(RInt(binned(sampleArrays, i - 1, binWidth)), RInt(Len(sampleArrays)))]

sumBinCounts(heavyBinCounts, lightBinCounts) ==
  [i \in 1 .. Len(heavyBinCounts) |-> RAdd(heavyBinCounts[i], lightBinCounts[i])]

RECURSIVE maxOf(_)
maxOf(binCounts) ==
  IF Len(binCounts) = 1 THEN binCounts[1]
  ELSE IF RLess(binCounts[1], maxOf(Tail(binCounts))) THEN maxOf(Tail(binCounts))
  ELSE binCounts[1]

RMax(a, b) == IF RLess(a, b) THEN b ELSE a

\* a model that keeps its samples when the play state changes
histogramsKeepSamples(h) == h

\* clearSamples()
histogramsClearSamples(h) ==
  [h EXCEPT !.dtAccumulator = RInt(0), !.numberOfSamples = 0,
            !.heavySpeedSamples = <<>>, !.lightSpeedSamples = <<>>,
            !.heavyKineticEnergySamples = <<>>, !.lightKineticEnergySamples = <<>>]

histogramsSample(h, heavy, light) ==
  [h EXCEPT !.heavySpeedSamples = Append(@, getSpeedValues(heavy)),
            !.lightSpeedSamples = Append(@, getSpeedValues(light)),
            !.heavyKineticEnergySamples = Append(@, getKineticEnergyValues(heavy, HeavyMass)),
            !.lightKineticEnergySamples = Append(@, getKineticEnergyValues(light, LightMass)),
            !.numberOfSamples = @ + 1]

\* the bin counts of update(), and the y scale found from the 'all' bin counts
histogramsScaled(h, allSpeed, allKineticEnergy) ==
  [h EXCEPT !.allSpeedBinCounts = allSpeed,
            !.allKineticEnergyBinCounts = allKineticEnergy,
            !.yScale = RMax(RMul(Rat(105, 100), RMax(maxOf(allSpeed), maxOf(allKineticEnergy))),
                            RInt(HISTOGRAM_LINE_SPACING)),
            !.binCountsUpdated = TRUE]

histogramsBinned(h, heavySpeed, lightSpeed, heavyKineticEnergy, lightKineticEnergy) ==
  histogramsScaled(
    [h EXCEPT !.heavySpeedBinCounts = heavySpeed,
              !.lightSpeedBinCounts = lightSpeed,
              !.heavyKineticEnergyBinCounts = heavyKineticEnergy,
              !.lightKineticEnergyBinCounts = lightKineticEnergy],
    sumBinCounts(heavySpeed, lightSpeed),
    sumBinCounts(heavyKineticEnergy, lightKineticEnergy))

\* update(); the kinetic energies are kept doubled, and so is their bin width
histogramsUpdate(h) ==
  histogramsClearSamples(
    histogramsBinned(h,
      samplesToBinCounts(h.heavySpeedSamples, numberOfBins, speedBinWidth),
      samplesToBinCounts(h.lightSpeedSamples, numberOfBins, speedBinWidth),
      samplesToBinCounts(h.heavyKineticEnergySamples, numberOfBins, 2 * kineticEnergyBinWidth),
      samplesToBinCounts(h.lightKineticEnergySamples, numberOfBins, 2 * kineticEnergyBinWidth)))

\* step( dt ), on the model with dt accumulated and the sample taken
histogramsStepSampled(sampled, playing) ==
  IF updatesNow(sampled.dtAccumulator, playing)
  THEN histogramsUpdate(sampled)
  ELSE sampled

histogramsStep(h, dt, playing, heavy, light) ==
  histogramsStepSampled(
    histogramsSample([h EXCEPT !.dtAccumulator = RAdd(@, RInt(dt)),
                               !.binCountsUpdated = FALSE], heavy, light), playing)

\* the assertions on numberOfSamples that fail during step( dt ): the one
\* of sample() and, when step goes on to update(), the one of update()
histogramsStepAssertions(h, dt, playing) ==
  sampleAssertion(h, playing) \cup
  (IF updatesNow(RAdd(h.dtAccumulator, RInt(dt)), playing)
   THEN updateAssertion([h EXCEPT !.numberOfSamples = @ + 1], playing)
   ELSE {})

InitHistograms ==
  histogramsModel =
    [dtAccumulator |-> RInt(0), numberOfSamples |-> 0,
     heavySpeedSamples |-> <<>>, lightSpeedSamples |-> <<>>,
     heavyKineticEnergySamples |-> <<>>, lightKineticEnergySamples |-> <<>>,
     heavySpeedBinCounts |-> emptyBins, lightSpeedBinCounts |-> emptyBins,
     allSpeedBinCounts |-> emptyBins,
     heavyKineticEnergyBinCounts |-> emptyBins, lightKineticEnergyBinCounts |-> emptyBins,
     allKineticEnergyBinCounts |-> emptyBins,
     yScale |-> RInt(HISTOGRAM_LINE_SPACING), binCountsUpdated |-> FALSE]

samplersOp(name, arg) ==
  /\ ops < IdealMaxOps
  /\ ops' = ops + 1
  /\ lastOp' = op(name, "", arg)
  /\ UNCHANGED <<heavyParticles, lightParticles, heavyParticlesOutside, lightParticlesOutside,
                 numberOfHeavyParticles, numberOfLightParticles, collisionsEnabled, disposed,
                 nextId, width, volume, bounds, calls, heats>>
  /\ UNCHANGED <<heatCoolFactorProperty, temperatureKelvin, stopwatchTime, numberOfCollisions>>
  /\ UNCHANGED <<gaugeVars, diffusionVars, dataVars>>

\* the step of both samplers with one dt
SamplersStep ==
  \E dt \in SamplerDts, heavy \in ParticleSpeeds, light \in ParticleSpeeds :
    /\ averageSpeedModel' = averageSpeedStep(averageSpeedModel, dt, isPlaying, heavy, light)
    /\ histogramsModel' = histogramsStep(histogramsModel, dt, isPlaying, heavy, light)
    /\ failedAssertions' = failedAssertions
          \cup averageSpeedStepAssertions(averageSpeedModel, dt, isPlaying, heavy, light)
          \cup histogramsStepAssertions(histogramsModel, dt, isPlaying)
    /\ UNCHANGED isPlaying
    /\ samplersOp("samplersStep", dt)

\* isPlayingProperty.value = playing, and the listeners of both samplers
SamplersSetIsPlaying ==
  \E playing \in BOOLEAN :
    /\ playing # isPlaying
    /\ isPlaying' = playing
    /\ averageSpeedModel' = clearSamples(averageSpeedModel)
    /\ histogramsModel' = histogramsClearSamples([histogramsModel EXCEPT !.binCountsUpdated = FALSE])
    /\ UNCHANGED failedAssertions
    /\ samplersOp("samplersSetIsPlaying", IF playing THEN 1 ELSE 0)

\* the listeners of particleSystem.numberOfParticlesProperty of both samplers
SamplersNumberOfParticlesChanged ==
  \E heavy \in ParticleSpeeds, light \in ParticleSpeeds :
    /\ IF ~isPlaying
       THEN /\ averageSpeedModel' =
                 averageSpeedStep(averageSpeedModel, samplePeriod, isPlaying, heavy, light)
            /\ histogramsModel' =
                 histogramsStep(histogramsModel, samplePeriod, isPlaying, heavy, light)
            /\ failedAssertions' = failedAssertions
                 \cup averageSpeedStepAssertions(averageSpeedModel, samplePeriod, isPlaying, heavy, light)
                 \cup histogramsStepAssertions(histogramsModel, samplePeriod, isPlaying)
       ELSE /\ histogramsModel' = [histogramsModel EXCEPT !.binCountsUpdated = FALSE]
            /\ UNCHANGED <<averageSpeedModel, failedAssertions>>
    /\ UNCHANGED isPlaying
    /\ samplersOp("samplersNumberOfParticlesChanged", Len(heavy) + Len(light))

\* reset() of both samplers
SamplersReset ==
  /\ averageSpeedModel' =
       clearSamples([averageSpeedModel EXCEPT !.heavyAverageSpeed = Null,
                                              !.lightAverageSpeed = Null])
  /\ histogramsModel' = histogramsClearSamples([histogramsModel EXCEPT !.binCountsUpdated = FALSE])
  /\ UNCHANGED <<isPlaying, failedAssertions>>
  /\ samplersOp("samplersReset", 0)

NextSamplers ==
  \/ SamplersStep
  \/ SamplersSetIsPlaying
  \/ SamplersNumberOfParticlesChanged
  \/ SamplersReset

\* ======================================================================
\* ParticleFlowRate.  The particles it monitors are inputs: for each one the
\* x-coordinates of previousLocation and location.
\* ======================================================================

\* number of samples used to compute the running average
NUMBER_OF_SAMPLES == 300

\* number of flow-rate operations explored in one behaviour
FlowRateMaxOps == MaxOps - 1

\* x-coordinates left of, on and right of the divider
FlowXs == {dividerX - 1, dividerX, dividerX + 1}

\* position of a particle in an enumeration of the nine moves
moveRank(p) == 3 * (p.previousX - dividerX) + (p.x - dividerX)

\* the monitored array: up to two particles; the loop of step adds up one
\* term per particle, so arrays of two are taken in one order only
MonitoredParticles ==
  {particles \in UNION {[1 .. n -> [previousX : FlowXs, x : FlowXs]] : n \in 0 .. 2} :
     Len(particles) = 2 => moveRank(particles[1]) <= moveRank(particles[2])}

\* time deltas handed to step, in ps
FlowRateDts == {Rat(1, 4), Rat(3, 4)}

\* a count that takes a particle on the divider for one that has crossed it
RECURSIVE countCrossingsOrTouching(_, _)
countCrossingsOrTouching(particles, counts) ==
  IF particles = <<>> THEN counts
  ELSE countCrossingsOrTouching(
         Tail(particles),
         IF Head(particles).previousX >= dividerX /\ Head(particles).x <= dividerX
         THEN [counts EXCEPT !.leftCount = @ + 1]
         ELSE IF Head(particles).previousX <= dividerX /\ Head(particles).x >= dividerX
         THEN [counts EXCEPT !.rightCount = @ + 1]
         ELSE counts)

\* the loop of step: counts of the particles that have crossed the divider
RECURSIVE countCrossings(_, _)
countCrossings(particles, counts) ==
  IF particles = <<>> THEN counts
  ELSE countCrossings(
         Tail(particles),
         IF Head(particles).previousX >= dividerX /\ Head(particles).x < dividerX
         THEN [counts EXCEPT !.leftCount = @ + 1]
         ELSE IF Head(particles).previousX <= dividerX /\ Head(particles).x > dividerX
         THEN [counts EXCEPT !.rightCount = @ + 1]
         ELSE counts)

pushSample(f, counts, dt) ==
  [f EXCEPT !.leftCounts = Append(@, counts.leftCount),
            !.rightCounts = Append(@, counts.rightCount),
            !.dts = Append(@, dt)]

\* a window from which no sample is ever dropped
keepEverySample(f) == f

\* `if ( this.leftCounts.length > NUMBER_OF_SAMPLES )`: shift() of the three arrays
dropOldestSample(f) ==
  IF Len(f.leftCounts) > NUMBER_OF_SAMPLES
  THEN [f EXCEPT !.leftCounts = Tail(@), !.rightCounts = Tail(@), !.dts = Tail(@)]
  ELSE f

\* the sum of s[from] .. s[to], the range split in halves
RECURSIVE sumRange(_, _, _)
sumRange(s, from, to) ==
  IF from > to THEN 0
  ELSE IF from = to THEN s[from]
  ELSE sumRange(s, from, (from + to) \div 2) + sumRange(s, (from + to) \div 2 + 1, to)

\* _.sum( counts )
sumOf(s) == sumRange(s, 1, Len(s))

\* _.sum( counts ) / counts.length
averageCount(counts) == RDiv(RInt(sumOf(counts)), RInt(Len(counts)))

\* _.sum( this.dts ) / this.dts.length
averageDt(dts) == RDiv(RSum(dts), RInt(Len(dts)))

updateFlowRates(f) ==
  [f EXCEPT !.leftFlowRate = RDiv(averageCount(f.leftCounts), averageDt(f.dts)),
            !.rightFlowRate = RDiv(averageCount(f.rightCounts), averageDt(f.dts))]

\* the assertion of step
flowRateAssertion(f) ==
  IF Len(f.leftCounts) = Len(f.rightCounts) /\ Len(f.leftCounts) = Len(f.dts)
  THEN {}
  ELSE {"all arrays should have the same length"}

\* ParticleFlowRate.step( dt ) with the monitored particles
flowRateStep(f, dt, particles) ==
  updateFlowRates(
    dropOldestSample(
      pushSample([f EXCEPT !.particles = particles],
                 countCrossings(particles, [leftCount |-> 0, rightCount |-> 0]), dt)))

InitFlowRate ==
  flowRate = [leftCounts |-> <<>>, rightCounts |-> <<>>, dts |-> <<>>,
              leftFlowRate |-> RInt(0), rightFlowRate |-> RInt(0), particles |-> <<>>]

flowRateOp(name) ==
  /\ ops < FlowRateMaxOps
  /\ ops' = ops + 1
  /\ lastOp' = op(name, "", 0)
  /\ UNCHANGED <<heavyParticles, lightParticles, heavyParticlesOutside, lightParticlesOutside,
                 numberOfHeavyParticles, numberOfLightParticles, collisionsEnabled, disposed,
                 nextId, width, volume, bounds, calls, heats>>
  /\ UNCHANGED <<leftData, rightData, gaussian, viewVars, redistribute, modelBounds, idealModelThrown>>
  /\ UNCHANGED <<idealVars, gaugeVars, diffusionVars, averageSpeedVars>>

\* particleFlowRate.step( dt )
FlowRateStep ==
  \E dt \in FlowRateDts, particles \in MonitoredParticles :
    /\ flowRate' = flowRateStep(flowRate, dt, particles)
    /\ failedAssertions' = failedAssertions \cup flowRateAssertion(flowRate')
    /\ flowRateOp("flowRateStep")

\* the monitored particles of the k-th of a run of steps: every third step
\* one particle crosses the divider to the left, every fifth one to the right
runParticles(k) ==
  IF k % 3 = 0 THEN <<[previousX |-> dividerX + 1, x |-> dividerX - 1]>>
  ELSE IF k % 5 = 0 THEN <<[previousX |-> dividerX - 1, x |-> dividerX + 1]>>
  ELSE <<>>

\* the time delta of the k-th of a run of steps
runDt(k) == IF k % 2 = 1 THEN Rat(1, 4) ELSE Rat(3, 4)

\* the flow rate after the first k calls of step of a run on a new
\* ParticleFlowRate, k <= NUMBER_OF_SAMPLES: no sample has been dropped yet,
\* so the arrays hold the k samples of the run
afterSteps(k) ==
  IF k = 0
  THEN [leftCounts |-> <<>>, rightCounts |-> <<>>, dts |-> <<>>,
        leftFlowRate |-> RInt(0), rightFlowRate |-> RInt(0), particles |-> <<>>]
  ELSE updateFlowRates(
         [leftCounts |-> [i \in 1 .. k |->
                            countCrossings(runParticles(i), [leftCount |-> 0, rightCount |-> 0]).leftCount],
          rightCounts |-> [i \in 1 .. k |->
                             countCrossings(runParticles(i), [leftCount |-> 0, rightCount |-> 0]).rightCount],
          dts |-> [i \in 1 .. k |-> runDt(i)],
          leftFlowRate |-> RInt(0), rightFlowRate |-> RInt(0), particles |-> <<>>])

\* lengths of the runs after which the window is observed: a new flow rate,
\* a window one sample short of full, and a full window
RunLengths == {0, NUMBER_OF_SAMPLES - 1, NUMBER_OF_SAMPLES}

\* a ParticleFlowRate that has been stepped for a while
InitFlowRateWindow == flowRate \in {afterSteps(k) : k \in RunLengths}

\* arrays of at most one monitored particle
WindowParticles == {particles \in MonitoredParticles : Len(particles) <= 1}

\* particleFlowRate.step( dt ), without a record of the particles monitored
FlowRateWindowStep ==
  \E dt \in FlowRateDts, particles \in WindowParticles :
    /\ flowRate' = [flowRateStep(flowRate, dt, particles) EXCEPT !.particles = <<>>]
    /\ failedAssertions' = failedAssertions \cup flowRateAssertion(flowRate')
    /\ flowRateOp("flowRateStep")

\* particleFlowRate.reset()
FlowRateReset ==
  /\ flowRate' = [leftCounts |-> <<>>, rightCounts |-> <<>>, dts |-> <<>>,
                  leftFlowRate |-> RInt(0), rightFlowRate |-> RInt(0),
                  particles |-> flowRate.particles]
  /\ UNCHANGED failedAssertions
  /\ flowRateOp("flowRateReset")

NextFlowRate ==
  \/ FlowRateStep
  \/ FlowRateReset

NextFlowRateWindow ==
  \/ FlowRateWindowStep
  \/ FlowRateReset

\* ======================================================================
\* GasPropertiesScreenView: the listener of the container's resize handle.
\* ======================================================================

\* the playing state saved only after the sim has been paused
playingAfterPause(playing) == FALSE

\* `wasPlaying = model.isPlayingProperty.value`, before the sim is paused
playingAtPress(playing) == playing

\* the view has been created: link() has called the listener of
\* visibleBoundsProperty once, so the model bounds that IdealModel
\* constructs as Bounds2( 0, 0, 1, 1 ) are those of the visible bounds
InitScreenView ==
  /\ screenView = [isPressed |-> FALSE, wasPlaying |-> TRUE, isTimeControlsEnabled |-> TRUE,
                   collisionCounterIsRunning |-> FALSE, particlesOpacity |-> Rat(1, 1),
                   containerWidth |-> widthRangeDefault]
  /\ modelBounds = viewToModelBounds(layoutBounds)

resizeHandleOp(name, arg) ==
  /\ ops < MaxOps + 2
  /\ ops' = ops + 1
  /\ lastOp' = op(name, "", arg)
  /\ UNCHANGED <<heavyParticlesOutside, lightParticlesOutside,
                 numberOfHeavyParticles, numberOfLightParticles, collisionsEnabled, disposed,
                 nextId, calls, heats, failedAssertions>>
  /\ UNCHANGED <<heatCoolFactorProperty, temperatureKelvin, stopwatchTime, numberOfCollisions>>
  /\ UNCHANGED <<gaugeVars, diffusionVars, averageSpeedVars, leftData, rightData, gaussian,
                 flowRate, lid, redistribute, modelBounds, idealModelThrown>>

\* resizeHandleIsPressedListener( true )
PressResizeHandle ==
  /\ ~screenView.isPressed
  /\ screenView' = [screenView EXCEPT !.isPressed = TRUE,
                                      !.wasPlaying = playingAtPress(isPlaying),
                                      !.isTimeControlsEnabled = FALSE,
                                      !.collisionCounterIsRunning = FALSE,
                                      !.particlesOpacity = Rat(6, 10),
                                      !.containerWidth = width]
  /\ isPlaying' = FALSE
  /\ UNCHANGED <<width, volume, bounds, heavyParticles, lightParticles>>
  /\ resizeHandleOp("pressResizeHandle", 0)

\* resizeHandleIsPressedListener( false )
ReleaseResizeHandle ==
  /\ screenView.isPressed
  /\ screenView' = [screenView EXCEPT !.isPressed = FALSE,
                                      !.isTimeControlsEnabled = TRUE,
                                      !.particlesOpacity = Rat(1, 1)]
  /\ isPlaying' = screenView.wasPlaying
  /\ IF redistribute = "end"
     THEN /\ heavyParticles' =
               redistributeParticles(heavyParticles, Rat(width, screenView.containerWidth))
          /\ lightParticles' =
               redistributeParticles(lightParticles, Rat(width, screenView.containerWidth))
     ELSE UNCHANGED <<heavyParticles, lightParticles>>
  /\ UNCHANGED <<width, volume, bounds>>
  /\ resizeHandleOp("releaseResizeHandle", 0)

\* the resize handle is dragged while pressed: container.widthProperty.value = w
DragResizeHandle ==
  \E w \in Widths :
    /\ screenView.isPressed
    /\ w # width
    /\ WidthChanged(w, width)
    /\ UNCHANGED <<screenView, isPlaying>>
    /\ resizeHandleOp("dragResizeHandle", w)

\* the play/pause button of the time controls, which acts while they are enabled
PressPlayPauseButton ==
  /\ screenView.isTimeControlsEnabled
  /\ isPlaying' = ~isPlaying
  /\ UNCHANGED <<screenView, width, volume, bounds, heavyParticles, lightParticles>>
  /\ resizeHandleOp("pressPlayPauseButton", 0)

\* the play button of the collision counter: collisionCounter.isRunningProperty toggles
PressCollisionCounterButton ==
  /\ screenView' = [screenView EXCEPT !.collisionCounterIsRunning = ~@]
  /\ UNCHANGED <<isPlaying, width, volume, bounds, heavyParticles, lightParticles>>
  /\ resizeHandleOp("pressCollisionCounterButton", 0)

NextResizeHandle ==
  \/ PressResizeHandle
  \/ ReleaseResizeHandle
  \/ DragResizeHandle
  \/ PressPlayPauseButton
  \/ PressCollisionCounterButton

\* ======================================================================
\* LidDragListener.  The container's lid geometry and the model-view
\* transform are collaborators: the lid covers the top of the container up
\* to the opening, whose right edge is fixed, so the opening's left edge is
\* at openingRight - ( getMaxLidWidth() - lidWidth ).  Model coordinates are
\* in pm, view coordinates in pixels.
\* ======================================================================

\* container.getMinLidWidth() and container.getMaxLidWidth(), in pm
getMinLidWidth == 2000
getMaxLidWidth == 8000

\* container.openingRight, in pm
openingRight == 10000

\* pm per pixel of the model-view transform
viewScale == 25

modelToViewX(x) == x \div viewScale
viewToModelX(x) == x * viewScale

\* container.getOpeningLeft()
getOpeningLeft(lidWidth) == openingRight - (getMaxLidWidth - lidWidth)

\* x-coordinates of the pointer, in the parent's view coordinates
PointerXs == {100, 240, 360, 400, 440}

\* a lid whose width is not kept above the minimum
lidWidthUnbounded(modelX) ==
  IF modelX >= openingRight
  THEN getMaxLidWidth
  ELSE getMaxLidWidth - (openingRight - modelX)

\* the lid width the drag callback sets for the pointer at modelX
lidWidthAt(modelX) ==
  IF modelX >= openingRight
  THEN getMaxLidWidth
  ELSE IF getMaxLidWidth - (openingRight - modelX) > getMinLidWidth
       THEN getMaxLidWidth - (openingRight - modelX)
       ELSE getMinLidWidth

\* the lid is closed when the container is constructed
InitLid == lid = [lidWidth |-> getMaxLidWidth, startXOffset |-> 0]

lidOp(name, arg) ==
  /\ ops < IdealMaxOps
  /\ ops' = ops + 1
  /\ lastOp' = op(name, "", arg)
  /\ UNCHANGED <<heavyParticles, lightParticles, heavyParticlesOutside, lightParticlesOutside,
                 numberOfHeavyParticles, numberOfLightParticles, collisionsEnabled, disposed,
                 nextId, width, volume, bounds, calls, heats, failedAssertions>>
  /\ UNCHANGED <<idealVars, gaugeVars, diffusionVars, averageSpeedVars, leftData, rightData,
                 gaussian, flowRate, screenView, redistribute, modelBounds, idealModelThrown>>

\* start( event, listener )
LidDragStart ==
  \E pointerX \in PointerXs :
    /\ lid' = [lid EXCEPT !.startXOffset = modelToViewX(getOpeningLeft(lid.lidWidth)) - pointerX]
    /\ lidOp("lidDragStart", pointerX)

\* drag( event, listener )
LidDrag ==
  \E pointerX \in PointerXs :
    /\ lid' = [lid EXCEPT !.lidWidth = lidWidthAt(viewToModelX(pointerX + lid.startXOffset))]
    /\ lidOp("lidDrag", pointerX)

\* end( listener ), which logs the opening
LidDragEnd ==
  /\ UNCHANGED lid
  /\ lidOp("lidDragEnd", 0)

NextLid ==
  \/ LidDragStart
  \/ LidDrag
  \/ LidDragEnd

\* ======================================================================
\* Specifications
\* ======================================================================

\* every object but the ParticleFlowRate, after construction
InitModel ==
  /\ InitParticleSystem
  /\ InitIdealModel
  /\ InitPressureGauge
  /\ InitDiffusion
  /\ InitAverageSpeed
  /\ InitDiffusionData
  /\ InitGaussian
  /\ InitHistograms
  /\ InitScreenView
  /\ InitLid
  /\ redistribute \in RedistributeStrategies

Init ==
  /\ InitModel
  /\ InitFlowRate

\* the state after construction for the objects that never read the
\* redistribute strategy: one strategy stands for both
InitDrag ==
  /\ Init
  /\ redistribute = "drag"

\* the state in which the flow rate has been stepped for a while
InitWindow ==
  /\ InitModel
  /\ InitFlowRateWindow
  /\ redistribute = "drag"

\* ParticleSystem with its BaseContainer
Spec == Init /\ [][Next]_vars

\* IdealModel
SpecIdeal == Init /\ [][NextIdeal]_vars

\* IdealModel with particles outside the container
SpecOutside == Init /\ [][NextOutside]_vars

\* DiffusionData of both sides of the diffusion container
SpecDiffusionData == InitDrag /\ [][NextDiffusionData]_vars

\* GasPropertiesUtils.getGaussianValues
SpecGaussian == InitDrag /\ [][NextGaussian]_vars

\* HistogramsModel and AverageSpeedModel
SpecSamplers == InitDrag /\ [][NextSamplers]_vars

\* the resize handle of the container
SpecResizeHandle == Init /\ [][NextResizeHandle]_vars

\* the lid of the container
SpecLid == InitDrag /\ [][NextLid]_vars

\* ParticleFlowRate
SpecFlowRate == InitDrag /\ [][NextFlowRate]_vars

\* ParticleFlowRate, the sample window alone
SpecFlowRateWindow == InitWindow /\ [][NextFlowRateWindow]_vars

\* AverageSpeedModel
SpecAverageSpeed == InitDrag /\ [][NextAverageSpeed]_vars

\* PressureGauge
SpecGauge == InitDrag /\ [][NextGauge]_vars

\* DiffusionCollisionDetector
SpecDiffusion == InitDrag /\ [][NextDiffusion]_vars

\* ======================================================================
\* Properties of the particle system and its container (Spec)
\* ======================================================================

particlesOf(species) == IF species = "heavy" THEN heavyParticles ELSE lightParticles

numberOf(species) == IF species = "heavy" THEN numberOfHeavyParticles ELSE numberOfLightParticles

Species == {"heavy", "light"}

insideParticles == heavyParticles \o lightParticles

outsideParticles == heavyParticlesOutside \o lightParticlesOutside

\* C1: once the population listener has run, the length of each species'
\* inside array equals its population target, the target is never negative
\* and the 'particles array is out of sync' assertion has never failed.
PopulationInSync ==
  /\ \A species \in Species :
       /\ Len(particlesOf(species)) = numberOf(species)
       /\ numberOf(species) >= 0
  /\ "particles array is out of sync" \notin failedAssertions

\* a population grown to 2 and shrunk back to 1 by the listener
PopulationInSyncWitness ==
  /\ lastOp = op("setNumberOfParticles", "heavy", -1)
  /\ numberOfHeavyParticles = 1
  /\ Len(heavyParticles) = 1
  /\ disposed # {}

\* old values handed to the population listener
OldValues == 0 .. MaxParticles + 1

\* C2: updateNumberOfParticles invoked with a newValue equal to the array's
\* current length adds, removes and disposes nothing, whatever oldValue is:
\* for every listener invocation made, and for every reachable array and
\* every old value.
ReconciliationIdempotent ==
  /\ \A k \in 1 .. Len(calls) :
       calls[k].newValue = Len(calls[k].before)
         => calls[k].after = calls[k].before /\ calls[k].disposed = {}
  /\ \A species \in Species, oldValue \in OldValues :
       LET particles == particlesOf(species)
           draws == CHOOSE d \in DrawsFor(Max(Len(particles) - oldValue, 0)) : TRUE
           r == updateNumberOfParticles(Len(particles), oldValue, particles, species,
                                        nextId, collisionsEnabled, draws)
       IN  r.particles = particles /\ r.disposed = {} /\ r.created = 0 /\ r.failed = {}

\* the listener has been invoked with newValue equal to the length of a
\* non-empty array and a different oldValue (a particle has escaped)
ReconciliationIdempotentWitness ==
  \E k \in 1 .. Len(calls) :
    /\ calls[k].newValue = Len(calls[k].before)
    /\ calls[k].oldValue # calls[k].newValue
    /\ calls[k].before # <<>>
    /\ calls[k].after = calls[k].before

\* growth of one species by n, as a step
GrowthStep(species, other, n) ==
  LET before == particlesOf(species)
      after == IF species = "heavy" THEN heavyParticles' ELSE lightParticles'
      otherAfter == IF other = "heavy" THEN heavyParticles' ELSE lightParticles'
  IN  /\ Len(after) = Len(before) + n
      /\ SubSeq(after, 1, Len(before)) = before
      /\ \A i \in Len(before) + 1 .. Len(after) :
           /\ after[i].species = species
           /\ after[i].x = RSub(RInt(particleEntryLocation.x), speciesRadius(species))
           /\ after[i].y = RInt(particleEntryLocation.y)
           /\ after[i].id \notin ids(insideParticles) \cup ids(outsideParticles) \cup disposed
           /\ \A j \in Len(before) + 1 .. Len(after) : after[j].id = after[i].id => j = i
      /\ otherAfter = particlesOf(other)
      /\ disposed' = disposed
      /\ heavyParticlesOutside' = heavyParticlesOutside
      /\ lightParticlesOutside' = lightParticlesOutside

\* C3: growing a species' population by n > 0 appends exactly n new particles
\* to that species' array, each at the entry point less its radius; the
\* particles already present and the other species' array are unchanged.
GrowthAppendsAtEntry ==
  [][ \A species \in Species, other \in Species :
        (/\ other # species
         /\ lastOp'.op = "setNumberOfParticles"
         /\ lastOp'.species = species
         /\ lastOp'.arg > 0)
          => GrowthStep(species, other, lastOp'.arg) ]_vars

\* a light particle added to an array that already holds one, next to a heavy one
GrowthAppendsAtEntryWitness ==
  /\ lastOp = op("setNumberOfParticles", "light", 1)
  /\ Len(lightParticles) = 2
  /\ Len(heavyParticles) >= 1
  /\ lightParticles[2].x = RSub(RInt(particleEntryLocation.x), LIGHT_PARTICLES_RADIUS)

\* shrinking of one species by n, as a step
ShrinkStep(species, other, n) ==
  LET before == particlesOf(species)
      after == IF species = "heavy" THEN heavyParticles' ELSE lightParticles'
      otherAfter == IF other = "heavy" THEN heavyParticles' ELSE lightParticles'
  IN  /\ n <= Len(before)
      /\ after = SubSeq(before, 1, Len(before) - n)
      /\ disposed' = disposed \cup {before[i].id : i \in Len(before) - n + 1 .. Len(before)}
      /\ otherAfter = particlesOf(other)

\* C4: shrinking a species' population by n removes exactly the last n
\* particles of its array and disposes them; the remaining particles are the
\* oldest ones in their original order.
ShrinkRemovesLast ==
  [][ \A species \in Species, other \in Species :
        (/\ other # species
         /\ lastOp'.op = "setNumberOfParticles"
         /\ lastOp'.species = species
         /\ lastOp'.arg < 0)
          => ShrinkStep(species, other, -lastOp'.arg) ]_vars

\* of two heavy particles the older one is left and the newer one is disposed
ShrinkRemovesLastWitness ==
  /\ lastOp = op("setNumberOfParticles", "heavy", -1)
  /\ Len(heavyParticles) = 1
  /\ \E id \in disposed : heavyParticles[1].id < id

\* C5: no particle inside the container has a NaN velocity.
NoNaNVelocity ==
  \A i \in 1 .. Len(insideParticles) : ~IsNaN(insideParticles[i].speed2)

\* C8: the width is within widthRange, the volume is width * height * depth
\* (here in 10^6 pm^3) and positive, the right edge and the bottom of the
\* bounds are at the container's location and the left edge is one width away.
ContainerGeometry ==
  /\ widthRangeMin <= width /\ width <= widthRangeMax
  /\ (height * depth) % (1000 * 1000) = 0
  /\ volume = width * ((height * depth) \div (1000 * 1000))
  /\ volume > 0
  /\ bounds.maxX = location.x
  /\ bounds.minY = location.y
  /\ bounds.minX = location.x - width
  /\ bounds.maxY = location.y + height

desiredAverageKEOf(temperature) == RMul(RMul(Rat(3, 2), RInt(temperature)), RInt(BOLTZMANN))

\* setTemperature as a step on a non-empty system whose average kinetic
\* energy is a positive number
SetTemperatureStep(temperature) ==
  LET actualAverageKE == getAverageKineticEnergy(heavyParticles, lightParticles)
      ratio == RDiv(desiredAverageKEOf(temperature), actualAverageKE)
  IN  (/\ Len(insideParticles) > 0
       /\ IsFinite(actualAverageKE)
       /\ actualAverageKE.n > 0)
        => /\ getAverageKineticEnergy(heavyParticles', lightParticles') = desiredAverageKEOf(temperature)
           /\ RDiv(RMul(Rat(2, 3), getAverageKineticEnergy(heavyParticles', lightParticles')),
                   RInt(BOLTZMANN)) = RInt(temperature)
           /\ Len(heavyParticles') = Len(heavyParticles)
           /\ Len(lightParticles') = Len(lightParticles)
           /\ \A i \in 1 .. Len(heavyParticles) :
                getKineticEnergy(heavyParticles'[i]) = RMul(ratio, getKineticEnergy(heavyParticles[i]))
           /\ \A i \in 1 .. Len(lightParticles) :
                getKineticEnergy(lightParticles'[i]) = RMul(ratio, getKineticEnergy(lightParticles[i]))
           /\ heavyParticlesOutside' = heavyParticlesOutside
           /\ lightParticlesOutside' = lightParticlesOutside

\* C9: setTemperature( T ) on a non-empty system with non-zero average kinetic
\* energy leaves the average kinetic energy at (3/2)kT, so that the derived
\* temperature is T; every inside particle's kinetic energy is multiplied by
\* the same ratio and the outside particles are untouched.
SetTemperatureRescales ==
  [][ lastOp'.op = "setTemperature" => SetTemperatureStep(lastOp'.arg) ]_vars

\* setTemperature has doubled the temperature of a system with a particle
\* inside and a particle outside
SetTemperatureRescalesWitness ==
  /\ lastOp = op("setTemperature", "", 2 * INITIAL_TEMPERATURE_MIN)
  /\ Len(insideParticles) > 0
  /\ Len(outsideParticles) > 0
  /\ getAverageKineticEnergy(heavyParticles, lightParticles)
       = desiredAverageKEOf(2 * INITIAL_TEMPERATURE_MIN)

\* |v|^2 = 3kT / m
speed2At(temperature, species) ==
  SqrtSquared(RDiv(RMul(RInt(3 * BOLTZMANN), temperature), RInt(speciesMass(species))))

\* the particles that the step appended to the array of species
appended(species) ==
  IF species = "heavy"
  THEN SubSeq(heavyParticles', Len(heavyParticles) + 1, Len(heavyParticles'))
  ELSE SubSeq(lightParticles', Len(lightParticles) + 1, Len(lightParticles'))

\* the squared speeds sqrt( 3kT / mass )^2 of n particles of the species with
\* the temperatures, taken in order
speedsOf(n, temperatures, species) ==
  [i \in 1 .. n |-> speed2At(temperatures[i], species)]

\* the squared speeds of n particles added at once with their temperatures
\* spread: one tuple for every initial temperature and every tuple of draws
spreadSpeeds ==
  [species \in Species |->
     [n \in 1 .. MaxParticles |->
        {speedsOf(n, getGaussianValues(n, RInt(T), RMul(Rat(2, 10), RInt(T)), zs), species) :
           T \in InitialTemperatures, zs \in [1 .. n -> ZDraws]}]]

\* the squared speeds of n particles added with one initial temperature
uniformSpeeds ==
  [species \in Species |->
     [n \in 1 .. MaxParticles |->
        {speedsOf(n, [i \in 1 .. n |-> RInt(T)], species) : T \in InitialTemperatures}]]

\* C16: addParticles spreads the temperature over the new particles only when
\* it adds more than one particle and particle-particle collisions are
\* enabled (the speeds then come from the Gaussian temperatures of mean T);
\* otherwise every new particle has the speed sqrt( 3kT / mass ) of the one
\* initial temperature T.
TemperatureSpreadOnlyForGroups ==
  [][ \A species \in Species :
        (/\ lastOp'.op = "setNumberOfParticles"
         /\ lastOp'.species = species
         /\ lastOp'.arg > 0)
          => IF lastOp'.arg > 1 /\ collisionsEnabled
             THEN [i \in 1 .. lastOp'.arg |-> appended(species)[i].speed2]
                    \in spreadSpeeds[species][lastOp'.arg]
             ELSE [i \in 1 .. lastOp'.arg |-> appended(species)[i].speed2]
                    \in uniformSpeeds[species][lastOp'.arg] ]_vars

\* two heavy particles were added at once with collisions disabled, and both
\* have the speed of the initial temperature
TemperatureSpreadOnlyForGroupsWitness ==
  /\ lastOp = op("setNumberOfParticles", "heavy", 2)
  /\ ~collisionsEnabled
  /\ Len(heavyParticles) = 2
  /\ \A i \in 1 .. 2 : heavyParticles[i].speed2 = speed2At(RInt(INITIAL_TEMPERATURE_MIN), "heavy")

\* every particle of `after` is the particle of `before` at the same index
\* with its velocity multiplied by scale, everything else as it was
velocitiesScaled(before, after, scale) ==
  /\ Len(after) = Len(before)
  /\ \A i \in 1 .. Len(before) :
       after[i] = [before[i] EXCEPT !.speed2 = RMul(RMul(scale, scale), before[i].speed2)]

\* C18: heatCool( 0 ) changes nothing; heatCool with a non-zero factor
\* multiplies the velocity of every particle inside the container by one and
\* the same scale, 1 + factor / divisor, and leaves the positions, the
\* population counts and the particles outside the container as they were.
HeatCoolScalesVelocities ==
  [][(lastOp'.op = "heatCool" /\ ops' = ops + 1)
       => /\ IF lastOp'.arg = 0
             THEN heavyParticles' = heavyParticles /\ lightParticles' = lightParticles
             ELSE /\ velocitiesScaled(heavyParticles, heavyParticles',
                                      RAdd(RInt(1), Rat(lastOp'.arg, heatCoolDivisor)))
                  /\ velocitiesScaled(lightParticles, lightParticles',
                                      RAdd(RInt(1), Rat(lastOp'.arg, heatCoolDivisor)))
          /\ \A i \in 1 .. Len(heavyParticles) :
               heavyParticles'[i].x = heavyParticles[i].x /\ heavyParticles'[i].y = heavyParticles[i].y
          /\ \A i \in 1 .. Len(lightParticles) :
               lightParticles'[i].x = lightParticles[i].x /\ lightParticles'[i].y = lightParticles[i].y
          /\ numberOfHeavyParticles' = numberOfHeavyParticles
          /\ numberOfLightParticles' = numberOfLightParticles
          /\ heavyParticlesOutside' = heavyParticlesOutside
          /\ lightParticlesOutside' = lightParticlesOutside
          /\ disposed' = disposed]_vars

\* two heavy particles have been heated: both move at 5/4 of the speed with
\* which they entered
HeatCoolScalesVelocitiesWitness ==
  /\ lastOp = op("heatCool", "", 1)
  /\ ~collisionsEnabled
  /\ Len(heavyParticles) = 2
  /\ \A i \in 1 .. 2 :
       heavyParticles[i].speed2 =
         RMul(Rat(25, 16), speed2At(RInt(INITIAL_TEMPERATURE_MIN), "heavy"))

\* every particle of `after` is the particle of `before` at the same index
\* with its x-coordinate multiplied by ratio, everything else as it was; a
\* centre between the walls `old` stays between the walls `new`
redistributed(before, after, ratio, old, new) ==
  /\ Len(after) = Len(before)
  /\ \A i \in 1 .. Len(before) :
       /\ after[i] = [before[i] EXCEPT !.x = RMul(ratio, before[i].x)]
       /\ (RLeq(RInt(old.minX), before[i].x) /\ RLeq(before[i].x, RInt(old.maxX)))
            => (RLeq(RInt(new.minX), after[i].x) /\ RLeq(after[i].x, RInt(new.maxX)))

\* the step changes the width of the container
widthChanges == width' # width

\* what a step leaves alone when it only changes the width or redistributes
populationUnchanged ==
  /\ numberOfHeavyParticles' = numberOfHeavyParticles
  /\ numberOfLightParticles' = numberOfLightParticles
  /\ heavyParticlesOutside' = heavyParticlesOutside
  /\ lightParticlesOutside' = lightParticlesOutside
  /\ disposed' = disposed

\* C19 as stated: every change of the container's width multiplies the
\* x-coordinate of every particle inside the container by newWidth / oldWidth
\* and changes nothing else of the particles; a particle whose centre was
\* within the old horizontal extent of the container is within the new one.
WidthChangeAlwaysRedistributes ==
  [][widthChanges
       => /\ redistributed(heavyParticles, heavyParticles', Rat(width', width), bounds, bounds')
          /\ redistributed(lightParticles, lightParticles', Rat(width', width), bounds, bounds')
          /\ populationUnchanged]_vars

\* C19: when the redistribute strategy is 'drag', every change of the
\* container's width, by an assignment of any width (inside or outside
\* widthRange) or by the container's reset, multiplies the x-coordinate of
\* every particle inside the container by newWidth / oldWidth and changes
\* nothing else of the particles (y, velocity, counts, particles outside),
\* and a particle whose centre was within the old horizontal extent of the
\* container is within the new one; when the strategy is 'end', a change of
\* the width leaves every particle as it was.  An assignment leaves the
\* assigned width, a reset the default width, and the bounds follow the
\* width.  A call of redistributeParticles( scaleX ) multiplies the
\* x-coordinates by scaleX and changes nothing else, the width included.
WidthChangeRedistributes ==
  [][ /\ widthChanges
         => /\ bounds' = boundsOf(width')
            /\ redistribute = "drag" =>
                 /\ redistributed(heavyParticles, heavyParticles', Rat(width', width), bounds, bounds')
                 /\ redistributed(lightParticles, lightParticles', Rat(width', width), bounds, bounds')
            /\ redistribute = "end" =>
                 /\ heavyParticles' = heavyParticles
                 /\ lightParticles' = lightParticles
            /\ populationUnchanged
      /\ (lastOp'.op = "setWidth" /\ ops' = ops + 1)
         => /\ lastOp'.arg \in Widths
            /\ lastOp'.arg # width
            /\ width' = lastOp'.arg
      /\ (lastOp'.op = "resetContainer" /\ ops' = ops + 1)
         => width' = widthRangeDefault
      /\ (lastOp'.op = "redistributeParticles" /\ ops' = ops + 1)
         => /\ redistributed(heavyParticles, heavyParticles', Rat(lastOp'.arg, 2), bounds, bounds)
            /\ redistributed(lightParticles, lightParticles', Rat(lastOp'.arg, 2), bounds, bounds)
            /\ width' = width
            /\ bounds' = bounds
            /\ populationUnchanged ]_vars

\* with the 'drag' strategy the container was widened to a width beyond its
\* range with a particle of each species inside: both are at 16000 / 10000
\* of their distance from the right wall, within the new bounds
WidthChangeRedistributesWitness ==
  /\ redistribute = "drag"
  /\ lastOp = op("setWidth", "", widthRangeMax + 1000)
  /\ width = widthRangeMax + 1000
  /\ bounds.minX = location.x - (widthRangeMax + 1000)
  /\ Len(heavyParticles) = 1
  /\ Len(lightParticles) = 1
  /\ heavyParticles[1].x = RMul(Rat(widthRangeMax + 1000, widthRangeDefault), RInt(-HEAVY_PARTICLES_RADIUS))
  /\ lightParticles[1].x = RMul(Rat(widthRangeMax + 1000, widthRangeDefault), RNeg(LIGHT_PARTICLES_RADIUS))
  /\ heavyParticles[1].y = RInt(particleEntryLocation.y)

\* C20: after ParticleSystem.reset() both population targets are 0 and the
\* four particle arrays are empty, so none of the assertions of reset fails.
ResetEmptiesParticleSystem ==
  [][(lastOp'.op = "reset" /\ ops' = ops + 1)
       => /\ numberOfHeavyParticles' = 0
          /\ numberOfLightParticles' = 0
          /\ heavyParticles' = <<>>
          /\ lightParticles' = <<>>
          /\ heavyParticlesOutside' = <<>>
          /\ lightParticlesOutside' = <<>>
          /\ failedAssertions' = failedAssertions
          /\ ids(insideParticles) \cup ids(outsideParticles) \subseteq disposed']_vars

\* the system was reset with one particle inside and one outside the
\* container: both are disposed, and no assertion has failed
ResetEmptiesParticleSystemWitness ==
  /\ lastOp = op("reset", "", 1)
  /\ Len(calls) = 1
  /\ Len(calls[1].before) = 1
  /\ Cardinality(disposed) = 2
  /\ insideParticles = <<>>
  /\ outsideParticles = <<>>
  /\ failedAssertions = {}

\* ======================================================================
\* Properties of IdealModel (SpecIdeal)
\* ======================================================================

\* a call of stepModelTime that found the model playing has just returned
steppedWhilePlaying == lastOp.op = "stepModelTime" /\ lastOp.arg = 1

\* C6: after every model step (a stepModelTime call while the model plays) the
\* thermometer is null if and only if there is no particle inside the
\* container, and otherwise it is (2/3) times the average kinetic energy of the
\* inside particles divided by k.
ThermometerAfterStep ==
  steppedWhilePlaying =>
    /\ (temperatureKelvin = Null) <=> (Len(heavyParticles) + Len(lightParticles) = 0)
    /\ Len(heavyParticles) + Len(lightParticles) > 0 =>
         temperatureKelvin = RDiv(RMul(Rat(2, 3),
                                       RDiv(RSum(kineticEnergies(insideParticles)),
                                            RInt(Len(insideParticles)))),
                                  RInt(BOLTZMANN))

\* a step has run with particles of both species inside, and the thermometer
\* shows a finite positive temperature
ThermometerAfterStepWitness ==
  /\ steppedWhilePlaying
  /\ Len(heavyParticles) > 0
  /\ Len(lightParticles) > 0
  /\ temperatureKelvin # Null
  /\ IsFinite(temperatureKelvin)
  /\ temperatureKelvin.n > 0

\* C21: while isPlaying is false a stepModelTime call changes no state of the
\* model: the particles of the four arrays (positions and velocities), the
\* population targets, the stopwatch, the thermometer, the collision counter
\* and the disposed particles are as before, and no assertion fails.
PausedStepChangesNothing ==
  [][(lastOp'.op = "stepModelTime" /\ lastOp'.arg = 0 /\ ops' = ops + 1)
       => /\ ~isPlaying
          /\ UNCHANGED <<heavyParticles, lightParticles, heavyParticlesOutside,
                         lightParticlesOutside, numberOfHeavyParticles, numberOfLightParticles,
                         disposed, failedAssertions, width, volume, bounds>>
          /\ UNCHANGED idealVars]_vars

\* the paused model was stepped with a moving particle in the container and
\* the heater on
PausedStepChangesNothingWitness ==
  /\ lastOp = op("stepModelTime", "", 0)
  /\ ~isPlaying
  /\ heatCoolFactorProperty # 0
  /\ Len(insideParticles) >= 1
  /\ isMoving(insideParticles[1])
  /\ stopwatchTime = 0

\* C12: after a model step every particle that remains on an outside array
\* intersects the model bounds.
OutsideParticlesIntersectBounds ==
  steppedWhilePlaying =>
    \A i \in 1 .. Len(outsideParticles) : intersectsBounds(outsideParticles[i], modelBounds)

\* ======================================================================
\* Properties of getGaussianValues (SpecGaussian)
\* ======================================================================

RAbs(a) == IF a.n < 0 THEN RNeg(a) ELSE a

\* C15: getGaussianValues returns exactly n values, their mean is the
\* requested mean to within the threshold (exactly, in exact arithmetic),
\* and every value is its raw draw shifted by one and the same offset.
GaussianMeanIsRequested ==
  lastOp.op = "getGaussianValues" =>
    /\ Len(gaussian.values) = gaussian.n
    /\ RLess(RAbs(RSub(actualMean(gaussian.values), gaussian.mean)), GaussianThreshold)
    /\ actualMean(gaussian.values) = gaussian.mean
    /\ \A i \in 1 .. gaussian.n :
         RSub(gaussian.values[i], gaussian.raw[i]) = RSub(gaussian.values[1], gaussian.raw[1])

\* three values were drawn whose mean was not the requested one, and they
\* were shifted
GaussianMeanIsRequestedWitness ==
  /\ lastOp.op = "getGaussianValues"
  /\ gaussian.n = 3
  /\ actualMean(gaussian.raw) # gaussian.mean
  /\ gaussian.values # gaussian.raw
  /\ gaussian.values[1] # gaussian.values[2]

\* ======================================================================
\* Properties of AverageSpeedModel (SpecAverageSpeed)
\* ======================================================================

\* C13: a step with a time delta dt <= 0 is refused: it leaves the
\* accumulated time, the samples and the average speeds as they were.
NonPositiveDtRefused ==
  [][(lastOp'.op = "averageSpeedStep" /\ lastOp'.arg <= 0 /\ ops' = ops + 1)
       => averageSpeedModel' = averageSpeedModel]_vars

\* ======================================================================
\* Properties of PressureGauge (SpecGauge)
\* ======================================================================

\* the container is empty: the model's pressure is 0 and its temperature null
gaugeEmpty == pressureProperty = RInt(0) /\ temperatureProperty = Null

\* C7: with an empty container (pressure 0, temperature null) the gauge reads
\* exactly zero whatever its accumulator holds: the reading becomes 0 in the
\* very step in which the pressure becomes 0, a reading of 0 stays 0 over
\* every step during which the container remains empty, and a refresh of the
\* gauge for an empty container writes 0, noise enabled or not.
GaugeReadsZeroWhenEmpty ==
  [][ /\ (pressureProperty # RInt(0) /\ pressureProperty' = RInt(0))
           => pressureKilopascalsProperty' = RInt(0)
      /\ (gaugeEmpty /\ gaugeEmpty' /\ pressureKilopascalsProperty = RInt(0))
           => pressureKilopascalsProperty' = RInt(0)
      /\ (gaugeEmpty /\ lastOp'.op = "gaugeStep" /\ lastOp'.arg = 1 /\ ops' = ops + 1)
           => pressureKilopascalsProperty' = RInt(0)
    ]_vars

\* the gauge has refreshed for an empty container with noise enabled, after
\* the pressure had been positive, and reads 0
GaugeReadsZeroWhenEmptyWitness ==
  /\ lastOp.op = "gaugeStep"
  /\ lastOp.arg = 1
  /\ ops >= 3
  /\ gaugeEmpty
  /\ pressureNoiseProperty
  /\ holdConstantProperty = "NOTHING"
  /\ pressureKilopascalsProperty = RInt(0)

\* the last operation refreshed the gauge
gaugeRefreshed == lastOp.op = "gaugeStep" /\ lastOp.arg = 1

\* C14: whenever the gauge refreshes while the hold-constant mode is
\* PRESSURE_T or PRESSURE_V, the displayed pressure becomes exactly the
\* model's pressure, whatever the noise option and the random draws.
NoNoiseWhenPressureHeld ==
  [][(/\ gaugeRefreshed'
      /\ ops' = ops + 1
      /\ holdConstantProperty \in {"PRESSURE_T", "PRESSURE_V"})
       => (pressureKilopascalsProperty' = pressureProperty /\ lastNoise' = RInt(0))]_vars

\* the gauge has refreshed with the pressure held constant, the noise option
\* on and a pressure and temperature for which noise is not zero
NoNoiseWhenPressureHeldWitness ==
  /\ gaugeRefreshed
  /\ holdConstantProperty \in {"PRESSURE_T", "PRESSURE_V"}
  /\ pressureNoiseProperty
  /\ pressureProperty = RInt(500)
  /\ temperatureProperty = RInt(300)
  /\ pressureKilopascalsProperty = pressureProperty

\* C22: the displayed pressure is never negative, whatever the pressure (>= 0),
\* the temperature, the noise option and the random draws: the random sign is
\* applied to the noise only when the noise is smaller than the pressure.
DisplayedPressureNotNegative ==
  /\ RLeq(RInt(0), pressureKilopascalsProperty)
  /\ gaugeRefreshed => pressureKilopascalsProperty = RAdd(pressureProperty, lastNoise)
  /\ (gaugeRefreshed /\ lastNoise.n < 0) => RLess(RNeg(lastNoise), pressureProperty)

\* the gauge has refreshed with a noise that is not smaller than the positive
\* pressure: the noise was added, and the display is above the pressure
DisplayedPressureNotNegativeWitness ==
  /\ gaugeRefreshed
  /\ pressureProperty = RInt(10)
  /\ RLeq(pressureProperty, lastNoise)
  /\ pressureKilopascalsProperty = RAdd(pressureProperty, lastNoise)

\* C23: step( dt ) refreshes the display exactly when the accumulator plus
\* the dt of this very step reaches REFRESH_PERIOD, and then sets the
\* accumulator to 0; otherwise it adds dt to the accumulator and leaves the
\* display and the noise alone.  After every operation the accumulator is
\* below REFRESH_PERIOD; reset() sets it to 0; an operation other than a
\* refreshing step changes the display only by the drop to 0 when the
\* model's pressure becomes 0.
GaugeRefreshesAtPeriod ==
  [][ /\ (lastOp'.op = "gaugeStep" /\ ops' = ops + 1) =>
           /\ lastDt' \in GaugeDts
           /\ IF RLeq(REFRESH_PERIOD, RAdd(dtAccumulator, lastDt'))
              THEN /\ lastOp'.arg = 1
                   /\ dtAccumulator' = RInt(0)
                   /\ pressureKilopascalsProperty' = RAdd(pressureProperty, lastNoise')
              ELSE /\ lastOp'.arg = 0
                   /\ dtAccumulator' = RAdd(dtAccumulator, lastDt')
                   /\ pressureKilopascalsProperty' = pressureKilopascalsProperty
                   /\ lastNoise' = lastNoise
      /\ (lastOp'.op # "gaugeStep" /\ ops' = ops + 1) => lastDt' = lastDt
      /\ (lastOp'.op = "gaugeReset" /\ ops' = ops + 1) => dtAccumulator' = RInt(0)
      /\ RLeq(RInt(0), dtAccumulator') /\ RLess(dtAccumulator', REFRESH_PERIOD)
      /\ (~gaugeRefreshed' /\ pressureKilopascalsProperty' # pressureKilopascalsProperty) =>
           (/\ pressureProperty # RInt(0)
            /\ pressureProperty' = RInt(0)
            /\ pressureKilopascalsProperty' = RInt(0))
    ]_vars

\* two steps have accumulated half a picosecond without a refresh: the
\* display still shows 0 although the model's pressure is 500 kPa
GaugeRefreshesAtPeriodWitness ==
  /\ lastOp = op("gaugeStep", "", 0)
  /\ lastDt = Rat(1, 4)
  /\ dtAccumulator = Rat(1, 2)
  /\ pressureProperty = RInt(500)
  /\ pressureKilopascalsProperty = RInt(0)

\* ======================================================================
\* Properties of DiffusionCollisionDetector (SpecDiffusion)
\* ======================================================================

\* no particle of the array reaches beyond the line x = dividerX from its side
leftOfDivider(particles) ==
  \A i \in 1 .. Len(particles) : RLeq(particleRight(particles[i]), RInt(dividerX))

rightOfDivider(particles) ==
  \A i \in 1 .. Len(particles) : RLeq(RInt(dividerX), particleLeft(particles[i]))

\* the arrays and the count that a step leaves when array 1 is collided
\* against bounds1 alone and array 2 against bounds2 alone
collidedAgainst(bounds1, bounds2) ==
  /\ particles1' = doParticleContainerCollisions(stepParticles(particles1), bounds1).particles
  /\ particles2' = doParticleContainerCollisions(stepParticles(particles2), bounds2).particles
  /\ numberOfParticleContainerCollisions' =
       doParticleContainerCollisions(stepParticles(particles1), bounds1).numberOfCollisions
       + doParticleContainerCollisions(stepParticles(particles2), bounds2).numberOfCollisions

\* C10: while the divider is present a step collides the particles of
\* species 1 against the left bounds only and those of species 2 against the
\* right bounds only, no particle reaches across the divider line, and the
\* reported count is the sum of the collisions of both sides; without the
\* divider both species are collided against the bounds of the whole container.
DividerSeparatesSides ==
  [][ (lastOp'.op = "diffusionStep" /\ ops' = ops + 1) =>
        IF hasDivider
        THEN /\ collidedAgainst(leftBounds, rightBounds)
             /\ leftOfDivider(particles1')
             /\ rightOfDivider(particles2')
        ELSE collidedAgainst(diffusionBounds, diffusionBounds)
    ]_vars

\* a step with the divider present has counted collisions while both sides
\* hold particles
DividerSeparatesSidesWitness ==
  /\ lastOp.op = "diffusionStep"
  /\ hasDivider
  /\ Len(particles1) > 0
  /\ Len(particles2) > 0
  /\ numberOfParticleContainerCollisions >= 2

\* ======================================================================
\* Properties of DiffusionData (SpecDiffusionData)
\* ======================================================================

\* indices of the particles of the array whose centre is within the bounds
within(b, particles) == {i \in 1 .. Len(particles) : containsPoint(b, particles[i])}

\* total kinetic energy of the particles of both arrays within the bounds
totalKEWithin(b, array1, array2) ==
  RAdd(RSum([i \in 1 .. Len(array1) |->
               IF i \in within(b, array1) THEN getKineticEnergy(array1[i]) ELSE RInt(0)]),
       RSum([i \in 1 .. Len(array2) |->
               IF i \in within(b, array2) THEN getKineticEnergy(array2[i]) ELSE RInt(0)]))

\* the data are those of the particles of the arrays within the bounds
dataDescribes(data, b, array1, array2) ==
  /\ data.numberOfParticles1 = Cardinality(within(b, array1))
  /\ data.numberOfParticles2 = Cardinality(within(b, array2))
  /\ (data.averageTemperature = Null) <=>
       (data.numberOfParticles1 = 0 /\ data.numberOfParticles2 = 0)
  /\ data.averageTemperature # Null =>
       RMul(RMul(data.averageTemperature, RInt(3 * BOLTZMANN)),
            RInt(data.numberOfParticles1 + data.numberOfParticles2))
         = RMul(RInt(2), totalKEWithin(b, array1, array2))

\* C17: after update() each side's data hold the number of particles of each
\* species whose location is within that side's bounds, and the average
\* temperature is null exactly when both numbers are 0 and otherwise
\* (2/3) * ( total KE / number of particles ) / k; a second update() with the
\* particles unchanged changes nothing.
DiffusionDataUpdated ==
  [][(lastOp'.op = "updateData" /\ ops' = ops + 1)
       => /\ dataDescribes(leftData', leftBounds, particles1', particles2')
          /\ dataDescribes(rightData', rightBounds, particles1', particles2')
          /\ lastOp.op = "updateData" => (leftData' = leftData /\ rightData' = rightData)]_vars

\* the data were updated after a particle of species 1 had crossed to the
\* right side; the left side is empty
DiffusionDataUpdatedWitness ==
  /\ lastOp.op = "updateData"
  /\ Len(particles1) = 1
  /\ leftData.numberOfParticles1 = 0
  /\ leftData.averageTemperature = Null
  /\ rightData.numberOfParticles1 = 1
  /\ rightData.numberOfParticles2 = 0
  /\ rightData.averageTemperature = RInt(INITIAL_TEMPERATURE_MIN)

\* ======================================================================
\* Properties of ParticleFlowRate (SpecFlowRateWindow, SpecFlowRate)
\* ======================================================================

\* the last n elements of the sequence
lastOf(s, n) == IF Len(s) <= n THEN s ELSE SubSeq(s, Len(s) - n + 1, Len(s))

\* the sequence without its last element
withoutLast(s) == SubSeq(s, 1, Len(s) - 1)

\* C24: the three sample arrays have the same length, at most
\* NUMBER_OF_SAMPLES; a step appends its sample and, when the window is full,
\* drops the oldest one; after a step each flow rate is the sum of the counts
\* in the window divided by the sum of the dts in the window, and is never
\* negative; reset() empties the window and sets the flow rates to 0.
FlowRateWindowBounded ==
  [][ /\ Len(flowRate'.leftCounts) = Len(flowRate'.rightCounts)
      /\ Len(flowRate'.leftCounts) = Len(flowRate'.dts)
      /\ Len(flowRate'.leftCounts) <= NUMBER_OF_SAMPLES
      /\ RLeq(RInt(0), flowRate'.leftFlowRate)
      /\ RLeq(RInt(0), flowRate'.rightFlowRate)
      /\ failedAssertions' = failedAssertions
      /\ (lastOp'.op = "flowRateStep" /\ ops' = ops + 1) =>
           /\ flowRate'.leftCounts # <<>>
           /\ withoutLast(flowRate'.leftCounts) = lastOf(flowRate.leftCounts, NUMBER_OF_SAMPLES - 1)
           /\ withoutLast(flowRate'.rightCounts) = lastOf(flowRate.rightCounts, NUMBER_OF_SAMPLES - 1)
           /\ withoutLast(flowRate'.dts) = lastOf(flowRate.dts, NUMBER_OF_SAMPLES - 1)
           /\ RMul(flowRate'.leftFlowRate, RSum(flowRate'.dts)) = RInt(sumOf(flowRate'.leftCounts))
           /\ RMul(flowRate'.rightFlowRate, RSum(flowRate'.dts)) = RInt(sumOf(flowRate'.rightCounts))
      /\ (lastOp'.op = "flowRateReset" /\ ops' = ops + 1) =>
           /\ flowRate'.leftCounts = <<>>
           /\ flowRate'.leftFlowRate = RInt(0)
           /\ flowRate'.rightFlowRate = RInt(0)
    ]_vars

\* a step on a full window: the window is still full, its first sample is
\* the second one of the run that filled it, and it holds crossings in both
\* directions
FlowRateWindowBoundedWitness ==
  /\ lastOp.op = "flowRateStep"
  /\ ops = 1
  /\ Len(flowRate.dts) = NUMBER_OF_SAMPLES
  /\ flowRate.dts[1] = runDt(2)
  /\ flowRate.dts[1] # runDt(1)
  /\ flowRate.dts[NUMBER_OF_SAMPLES - 1] = runDt(NUMBER_OF_SAMPLES)
  /\ flowRate.leftCounts[2] = 1
  /\ sumOf(flowRate.leftCounts) > 0
  /\ sumOf(flowRate.rightCounts) > 0

\* indices of the monitored particles that moved from the divider or its
\* right to its left
leftward(particles) ==
  {i \in 1 .. Len(particles) : particles[i].previousX >= dividerX /\ particles[i].x < dividerX}

\* indices of the monitored particles that moved from the divider or its
\* left to its right
rightward(particles) ==
  {i \in 1 .. Len(particles) : particles[i].previousX <= dividerX /\ particles[i].x > dividerX}

\* indices of the monitored particles that stayed on one side of the divider
stayed(particles) ==
  {i \in 1 .. Len(particles) :
     \/ particles[i].previousX < dividerX /\ particles[i].x < dividerX
     \/ particles[i].previousX > dividerX /\ particles[i].x > dividerX}

\* C25: in the sample a step takes, leftCount is the number of particles with
\* previous x >= dividerX and current x < dividerX, rightCount the number of
\* those with previous x <= dividerX and current x > dividerX; no particle
\* is counted in both, a particle that stayed on one side is counted in
\* neither, and the two counts together do not exceed the number of particles.
CrossingCountedOnce ==
  lastOp.op = "flowRateStep" =>
    LET n == Len(flowRate.leftCounts)
    IN  /\ n > 0
        /\ flowRate.leftCounts[n] = Cardinality(leftward(flowRate.particles))
        /\ flowRate.rightCounts[n] = Cardinality(rightward(flowRate.particles))
        /\ leftward(flowRate.particles) \cap rightward(flowRate.particles) = {}
        /\ stayed(flowRate.particles) \cap
             (leftward(flowRate.particles) \cup rightward(flowRate.particles)) = {}
        /\ flowRate.leftCounts[n] + flowRate.rightCounts[n] <= Len(flowRate.particles)

\* a sample of two particles: one crossed to the left from the divider
\* itself, the other stayed on the divider and was not counted
CrossingCountedOnceWitness ==
  /\ lastOp.op = "flowRateStep"
  /\ Len(flowRate.particles) = 2
  /\ flowRate.particles[1] = [previousX |-> dividerX, x |-> dividerX - 1]
  /\ flowRate.particles[2] = [previousX |-> dividerX, x |-> dividerX]
  /\ flowRate.leftCounts[Len(flowRate.leftCounts)] = 1
  /\ flowRate.rightCounts[Len(flowRate.rightCounts)] = 0

\* ======================================================================
\* Properties of HistogramsModel and AverageSpeedModel (SpecSamplers)
\* ======================================================================

\* the sampler has no pending sample, no accumulated dt and no sample data
histogramsCleared(h) ==
  /\ h.numberOfSamples = 0
  /\ h.dtAccumulator = RInt(0)
  /\ h.heavySpeedSamples = <<>>
  /\ h.lightSpeedSamples = <<>>
  /\ h.heavyKineticEnergySamples = <<>>
  /\ h.lightKineticEnergySamples = <<>>

averageSpeedCleared(m) ==
  /\ m.numberOfSamples = 0
  /\ m.dtAccumulator = RInt(0)
  /\ m.heavyAverageSpeedSum = RInt(0)
  /\ m.lightAverageSpeedSum = RInt(0)

\* both samplers show the one sample of these particles
updatedFromOneSample(h, m, heavy, light) ==
  /\ h.binCountsUpdated
  /\ h.heavySpeedBinCounts = samplesToBinCounts(<<heavy>>, numberOfBins, speedBinWidth)
  /\ h.lightSpeedBinCounts = samplesToBinCounts(<<light>>, numberOfBins, speedBinWidth)
  /\ m.heavyAverageSpeed = (IF heavy = <<>> THEN Null ELSE getAverageSpeed(heavy))
  /\ m.lightAverageSpeed = (IF light = <<>> THEN Null ELSE getAverageSpeed(light))

\* C26: under every interleaving of steps, play/pause toggles, changes of
\* the number of particles and resets, for both samplers: while the sim is
\* paused the number of pending samples is 0 after every operation; a change
\* of the number of particles while paused updates at once from exactly one
\* sample; after every update the sample data and the dt accumulator are
\* cleared; and neither assertion on numberOfSamples fails.
PausedSamplersHoldNoSamples ==
  [][ /\ failedAssertions' = {}
      /\ (~isPlaying') =>
            histogramsCleared(histogramsModel') /\ averageSpeedCleared(averageSpeedModel')
      /\ histogramsModel'.numberOfSamples = averageSpeedModel'.numberOfSamples
      /\ histogramsModel'.dtAccumulator = averageSpeedModel'.dtAccumulator
      /\ histogramsModel'.binCountsUpdated =>
            histogramsCleared(histogramsModel') /\ averageSpeedCleared(averageSpeedModel')
      /\ (lastOp'.op = "samplersNumberOfParticlesChanged" /\ ops' = ops + 1 /\ ~isPlaying) =>
            \E heavy \in ParticleSpeeds, light \in ParticleSpeeds :
              updatedFromOneSample(histogramsModel', averageSpeedModel', heavy, light)
      /\ (lastOp'.op = "samplersStep" /\ ops' = ops + 1 /\ ~isPlaying) =>
            histogramsModel'.binCountsUpdated
    ]_vars

\* the sim was paused with a sample pending, and then the number of
\* particles changed: both samplers updated from the one new sample
PausedSamplersHoldNoSamplesWitness ==
  /\ ~isPlaying
  /\ ops >= 3
  /\ lastOp.op = "samplersNumberOfParticlesChanged"
  /\ updatedFromOneSample(histogramsModel, averageSpeedModel, <<100, 300>>, <<>>)
  /\ averageSpeedModel.heavyAverageSpeed = RInt(200)
  /\ histogramsModel.heavySpeedBinCounts[1] = RInt(1)
  /\ histogramsModel.heavySpeedBinCounts[2] = RInt(1)

\* C27: after update() the average speed of a species is null exactly when
\* its collection is empty at update time, and otherwise is the true
\* average speed of the species over the period, even when the species was
\* absent (sampled as 0) for part of it.  Stated for the heavy species and
\* a period of two samples, the first taken while the species was absent:
\* the update shows the average speed of the particles of the second sample.
AverageSpeedIsTrueAverage ==
  [][ ( /\ lastOp'.op = "averageSpeedStep"
        /\ ops' = ops + 1
        /\ averageSpeedModel.numberOfSamples = 1
        /\ averageSpeedModel.heavyAverageSpeedSum = RInt(0)
        /\ averageSpeedModel'.numberOfSamples = 0 )
      => \/ averageSpeedModel'.heavyAverageSpeed = Null
         \/ \E heavy \in ParticleSpeeds :
              /\ heavy # <<>>
              /\ averageSpeedModel'.heavyAverageSpeed = getAverageSpeed(heavy)
    ]_vars

\* ======================================================================
\* Properties of the resize handle's listener (SpecResizeHandle)
\* ======================================================================

\* C28: pressing the resize handle pauses the sim and disables the time
\* controls; while the handle is pressed the sim stays paused and the saved
\* playing state is kept; releasing the handle enables the time controls
\* and sets isPlaying to the value it had immediately before the press;
\* over every sequence of presses, releases, drags and play/pause toggles.
ReleaseRestoresPlaying ==
  [][ /\ (lastOp'.op = "pressResizeHandle" /\ ops' = ops + 1) =>
            /\ ~isPlaying'
            /\ ~screenView'.isTimeControlsEnabled
            /\ screenView'.wasPlaying = isPlaying
      /\ (screenView.isPressed /\ screenView'.isPressed) =>
            /\ ~isPlaying'
            /\ ~screenView'.isTimeControlsEnabled
            /\ screenView'.wasPlaying = screenView.wasPlaying
      /\ (lastOp'.op = "releaseResizeHandle" /\ ops' = ops + 1) =>
            /\ screenView'.isTimeControlsEnabled
            /\ isPlaying' = screenView.wasPlaying
    ]_vars

\* the handle was pressed while the sim was playing, and has been released:
\* the sim plays again
ReleaseRestoresPlayingWitness ==
  /\ lastOp.op = "releaseResizeHandle"
  /\ ops >= 2
  /\ isPlaying
  /\ screenView.wasPlaying
  /\ screenView.isTimeControlsEnabled
  /\ ~screenView.isPressed

\* ======================================================================
\* Properties of LidDragListener (SpecLid)
\* ======================================================================

\* model x-coordinate a drag event works with
dragModelX(pointerX, startXOffset) == viewToModelX(pointerX + startXOffset)

\* C29: the lid width is always in [getMinLidWidth(), getMaxLidWidth()];
\* a drag to or past the opening's right edge sets it to the maximum, and
\* a drag to any other position sets it to
\* max( getMaxLidWidth() - openingWidth, getMinLidWidth() ), where
\* openingWidth is the distance from that position to the right edge.
LidWidthWithinRange ==
  [][ /\ getMinLidWidth <= lid'.lidWidth
      /\ lid'.lidWidth <= getMaxLidWidth
      /\ (lastOp'.op = "lidDrag" /\ ops' = ops + 1) =>
            IF dragModelX(lastOp'.arg, lid.startXOffset) >= openingRight
            THEN lid'.lidWidth = getMaxLidWidth
            ELSE /\ lid'.lidWidth >= getMaxLidWidth - (openingRight - dragModelX(lastOp'.arg, lid.startXOffset))
                 /\ \/ lid'.lidWidth = getMinLidWidth
                    \/ lid'.lidWidth = getMaxLidWidth - (openingRight - dragModelX(lastOp'.arg, lid.startXOffset))
      /\ (lastOp'.op # "lidDrag" /\ ops' = ops + 1) => lid'.lidWidth = lid.lidWidth
    ]_vars

\* the lid was dragged so far to the left that its width stopped at the minimum
LidWidthWithinRangeWitness ==
  /\ lastOp.op = "lidDrag"
  /\ lid.lidWidth = getMinLidWidth
  /\ getMaxLidWidth - (openingRight - dragModelX(lastOp.arg, lid.startXOffset)) < getMinLidWidth

====
